---- MODULE Spec2Model ----
(***************************************************************************)
(* A model of the Svelte printer (print, printTopLevelParts,               *)
(* printChildren, prepareChildren and the per-kind rules of the            *)
(* dispatcher) and of its process-wide format-suppression state.           *)
(*                                                                         *)
(* Source text is a sequence of atoms: a text character ("a", " ", "\n")   *)
(* or one indivisible lexeme of a tag, comment or interpolation.  Node     *)
(* offsets (start, end) count atoms.                                       *)
(*                                                                         *)
(* A Doc is the flattened token sequence of a prettier document: strings,  *)
(* the line kinds, breakParent, and bracket tokens for group/indent/fill.  *)
(***************************************************************************)
EXTENDS Integers, Sequences, FiniteSets, TLC

\* ------------------------------------------------------------------ bounds
\* Nodes (top-level and nested) of one markup tree.
MaxNodes == 3

\* ------------------------------------------------------- sequence helpers
RECURSIVE Flatten(_)
Flatten(ss) == IF ss = <<>> THEN <<>> ELSE Head(ss) \o Flatten(Tail(ss))

RECURSIVE SeqsUpTo(_, _)
SeqsUpTo(S, n) ==
    IF n = 0 THEN {<<>>}
    ELSE LET shorter == SeqsUpTo(S, n - 1)
         IN  shorter \cup {Append(s, x) : s \in {t \in shorter : Len(t) = n - 1}, x \in S}

Last(s) == s[Len(s)]
Front(s) == SubSeq(s, 1, Len(s) - 1)
Slice(text, from, to) == SubSeq(text, from + 1, to)

\* ------------------------------------------------------------ doc builders
line == <<"line">>
softline == <<"softline">>
hardline == <<"hardline">>
literalline == <<"literalline">>
breakParent == <<"breakParent">>
LineTokens == {"line", "softline", "hardline", "literalline"}

concat(parts) == Flatten(parts)
group(d) == <<"group(">> \o d \o <<")">>
indent(d) == <<"indent(">> \o d \o <<")">>
dedent(d) == <<"dedent(">> \o d \o <<")">>
fill(parts) == <<"fill(">> \o parts \o <<")">>
groupConcat(parts) == group(concat(parts))

RECURSIVE join(_, _)
join(sep, docs) ==
    IF Len(docs) = 0 THEN <<>>
    ELSE IF Len(docs) = 1 THEN <<docs[1]>>
    ELSE <<docs[1], sep>> \o join(sep, Tail(docs))

isLine(tok) == tok \in LineTokens

\* trim/trimRight of doc-helpers on a one-element array holding a concat:
\* leading/trailing tokens of the given kinds are dropped; a group is not
\* entered.
RECURSIVE trimLeftDoc(_, _)
trimLeftDoc(d, drop) ==
    IF d # <<>> /\ Head(d) \in drop THEN trimLeftDoc(Tail(d), drop) ELSE d

RECURSIVE trimRightDoc(_, _)
trimRightDoc(d, drop) ==
    IF d # <<>> /\ Last(d) \in drop THEN trimRightDoc(Front(d), drop) ELSE d

trim(d, drop) == trimRightDoc(trimLeftDoc(d, drop), drop)

\* -------------------------------------------------------------- text helpers
Whitespace == {" ", "\n"}

RECURSIVE TrimLeftChars(_)
TrimLeftChars(t) ==
    IF t # <<>> /\ Head(t) \in Whitespace THEN TrimLeftChars(Tail(t)) ELSE t

RECURSIVE TrimRightChars(_)
TrimRightChars(t) ==
    IF t # <<>> /\ Last(t) \in Whitespace THEN TrimRightChars(Front(t)) ELSE t

TrimChars(t) == TrimRightChars(TrimLeftChars(t))

CountNewlines(t) == Cardinality({i \in 1..Len(t) : t[i] = "\n"})

\* The leading / trailing run of whitespace of a text.
LeadingWs(t) == SubSeq(t, 1, Len(t) - Len(TrimLeftChars(t)))
TrailingWs(t) == SubSeq(t, Len(TrimRightChars(t)) + 1, Len(t))

\* /^([\t\f\r ]*\n){n}/ and /(\n[\t\f\r ]*){n}$/
startsWithLinebreak(t, n) == CountNewlines(LeadingWs(t)) >= n
endsWithLinebreak(t, n) == CountNewlines(TrailingWs(t)) >= n

getUnencodedText(node) == node.raw

isEmptyTextNode(node) == node.type = "Text" /\ TrimChars(getUnencodedText(node)) = <<>>

isTextNodeStartingWithWhitespace(node) ==
    node.type = "Text" /\ node.raw # <<>> /\ Head(node.raw) \in Whitespace
isTextNodeEndingWithWhitespace(node) ==
    node.type = "Text" /\ node.raw # <<>> /\ Last(node.raw) \in Whitespace
isTextNodeStartingWithLinebreak(node, n) ==
    node.type = "Text" /\ startsWithLinebreak(node.raw, n)
isTextNodeEndingWithLinebreak(node, n) ==
    node.type = "Text" /\ endsWithLinebreak(node.raw, n)

trimTextNodeLeft(node) == [node EXCEPT !.raw = TrimLeftChars(@)]
trimTextNodeRight(node) == [node EXCEPT !.raw = TrimRightChars(@)]

\* ------------------------------------------------------------ comment kinds
isIgnoreDirective(node) == node.type = "Comment" /\ node.name = "prettier-ignore"
isIgnoreStartDirective(node) == node.type = "Comment" /\ node.name = "prettier-ignore-start"
isIgnoreEndDirective(node) == node.type = "Comment" /\ node.name = "prettier-ignore-end"


\* ------------------------------------------------------------------- nodes
\* Markup nodes share one record shape.  name: tag name, comment data
\* (trimmed); expression: [type, name] of the embedded expression; raw: the text of a Text node; comments: the
\* CommentInfo list assignCommentsToNodes attaches to a section.
Expr(type, name) == [type |-> type, name |-> name]
NoExpr == Expr("", "")

Node(type, name, raw, attributes, children) ==
    [type |-> type, name |-> name, raw |-> raw, attributes |-> attributes,
     children |-> children, comments |-> <<>>, expression |-> [type |-> "", name |-> ""],
     else |-> <<>>, pending |-> <<>>, then |-> <<>>, catch |-> <<>>,
     context |-> "", value |-> "", error |-> "",
     start |-> 0, end |-> 0, id |-> 0]

NoNode == Node("None", "", <<>>, <<>>, <<>>)

TextNode(raw) == Node("Text", "", raw, <<>>, <<>>)
CommentNode(data) == Node("Comment", data, <<>>, <<>>, <<>>)
ElementNode(name, attrs, kids) == Node("Element", name, <<>>, attrs, kids)
ComponentNode(name, attrs, kids) == Node("InlineComponent", name, <<>>, attrs, kids)
ElementLike == {"Element", "InlineComponent"}
OptionsNode(attrs) == Node("Options", "svelte:options", <<>>, attrs, <<>>)
MustacheTagNode(expr) == [Node("MustacheTag", "", <<>>, <<>>, <<>>) EXCEPT !.expression = expr]
AttributeShorthandNode(expr) ==
    [Node("AttributeShorthand", "", <<>>, <<>>, <<>>) EXCEPT !.expression = expr]
UnknownNode == Node("Unknown", "?", <<>>, <<>>, <<>>)
ScriptNode(kind) == Node("Script", kind, <<>>, <<>>, <<>>)
StyleNode == Node("Style", "css", <<>>, <<>>, <<>>)

\* Blocks.  else, pending, then and catch hold the branch node (no node when
\* empty); context, value and error are the patterns an each / await block
\* binds ("" when there is none).
IfBlockNode(expr, kids, else) ==
    [Node("IfBlock", "", <<>>, <<>>, kids) EXCEPT !.expression = expr, !.else = else]
ElseBlockNode(kids) == Node("ElseBlock", "", <<>>, <<>>, kids)
EachBlockNode(expr, context, kids, else) ==
    [Node("EachBlock", "", <<>>, <<>>, kids)
       EXCEPT !.expression = expr, !.context = context, !.else = else]
AwaitBlockNode(expr, value, error, pending, then, catch) ==
    [Node("AwaitBlock", "", <<>>, <<>>, <<>>)
       EXCEPT !.expression = expr, !.value = value, !.error = error,
              !.pending = <<Node("PendingBlock", "", <<>>, <<>>, pending)>>,
              !.then = <<Node("ThenBlock", "", <<>>, <<>>, then)>>,
              !.catch = <<Node("CatchBlock", "", <<>>, <<>>, catch)>>]
SvelteBlocks ==
    {"IfBlock", "AwaitBlock", "CatchBlock", "EachBlock", "ElseBlock", "KeyBlock",
     "PendingBlock", "ThenBlock"}

\* Attribute-like nodes: value is the child list of the value; valueIsTrue
\* stands for `value === true`; expression is [type, name] of the embedded
\* expression (type "" when there is none).
AttrNode(type, name, value, valueIsTrue, expression) ==
    [type |-> type, name |-> name, value |-> value, valueIsTrue |-> valueIsTrue,
     expression |-> expression, start |-> 0, end |-> 0, id |-> 0]

\* Directives.  A binding, class or let directive carries an expression
\* (NoExpr for a let directive written without one); a style directive
\* carries modifiers and a value like an attribute.
DirectiveNode(type, name, expression) == AttrNode(type, name, <<>>, FALSE, expression)
StyleDirectiveNode(name, modifiers, value, valueIsTrue) ==
    [type |-> "StyleDirective", name |-> name, modifiers |-> modifiers, value |-> value,
     valueIsTrue |-> valueIsTrue, expression |-> NoExpr, start |-> 0, end |-> 0, id |-> 0]
DirectivePrefix == [Binding |-> "bind:", Class |-> "class:", Let |-> "let:",
                    StyleDirective |-> "style:"]

\* ------------------------------------------------------ source and offsets
RECURSIVE SizeOf(_), SizeOfAll(_)
SizeOf(n) ==
    CASE n.type = "Text" -> Len(n.raw)
      [] n.type \in ElementLike -> 3 + Len(n.attributes) + SizeOfAll(n.children)
      [] n.type = "Options" -> 2 + Len(n.attributes)
      [] n.type \in {"IfBlock", "EachBlock"} ->
            2 + SizeOfAll(n.children)
            + (IF n.else = <<>> THEN 0 ELSE 1 + SizeOfAll(n.else))
      [] n.type \in {"ElseBlock", "PendingBlock"} -> SizeOfAll(n.children)
      [] n.type \in {"ThenBlock", "CatchBlock"} -> 1 + SizeOfAll(n.children)
      [] n.type = "AwaitBlock" ->
            2 + SizeOfAll(n.pending) + SizeOfAll(n.then) + SizeOfAll(n.catch)
      [] OTHER -> 1
SizeOfAll(ns) == IF ns = <<>> THEN 0 ELSE SizeOf(Head(ns)) + SizeOfAll(Tail(ns))

\* The source text of a node, atom by atom.
RECURSIVE AtomsOf(_), AtomsOfAll(_)
AtomsOf(n) ==
    CASE n.type = "Text" -> n.raw
      [] n.type = "Comment" -> <<"<!-- " \o n.name \o " -->">>
      [] n.type \in ElementLike ->
            <<"<" \o n.name>> \o AtomsOfAll(n.attributes) \o <<">">>
            \o AtomsOfAll(n.children) \o <<"</" \o n.name \o ">">>
      [] n.type = "Options" -> <<"<svelte:options">> \o AtomsOfAll(n.attributes) \o <<"/>">>
      [] n.type = "MustacheTag" -> <<"{" \o n.expression.name \o "}">>
      [] n.type = "Script" -> <<"<script " \o n.name \o ">">>
      [] n.type = "Style" -> <<"<style>">>
      [] n.type = "Attribute" -> <<n.name \o "=..">>
      [] n.type \in DOMAIN DirectivePrefix -> <<DirectivePrefix[n.type] \o n.name \o "..">>
      [] n.type = "IfBlock" ->
            <<"{#if " \o n.expression.name \o "}">> \o AtomsOfAll(n.children)
            \o (IF n.else = <<>> THEN <<>> ELSE <<"{:else}">> \o AtomsOfAll(n.else))
            \o <<"{/if}">>
      [] n.type = "EachBlock" ->
            <<"{#each " \o n.expression.name \o " as " \o n.context \o "}">>
            \o AtomsOfAll(n.children)
            \o (IF n.else = <<>> THEN <<>> ELSE <<"{:else}">> \o AtomsOfAll(n.else))
            \o <<"{/each}">>
      [] n.type \in {"ElseBlock", "PendingBlock"} -> AtomsOfAll(n.children)
      [] n.type = "ThenBlock" -> <<"{:then}">> \o AtomsOfAll(n.children)
      [] n.type = "CatchBlock" -> <<"{:catch}">> \o AtomsOfAll(n.children)
      [] n.type = "AwaitBlock" ->
            <<"{#await " \o n.expression.name \o "}">> \o AtomsOfAll(n.pending)
            \o AtomsOfAll(n.then) \o AtomsOfAll(n.catch) \o <<"{/await}">>
      [] OTHER -> <<"?">>
AtomsOfAll(ns) == IF ns = <<>> THEN <<>> ELSE AtomsOf(Head(ns)) \o AtomsOfAll(Tail(ns))

\* The parser's offsets: a node starts where its predecessor ended; an
\* element's attributes and children lie inside it.  id is the identity of
\* the node object (its start offset, which no two nodes of a tree share; a
\* branch of a block, which may start where its first child starts, gets a
\* number of its own).  An else branch starts after its tag, a then or catch
\* branch at its tag.
PlaceValue(value, off) ==
    [k \in 1..Len(value) |->
        [value[k] EXCEPT !.start = off, !.end = off + 1, !.id = 0 - (10 * (off + 1) + k)]]

RECURSIVE Place(_, _), PlaceAll(_, _)
Place(n, off) ==
    LET placed == [n EXCEPT !.start = off, !.end = off + SizeOf(n), !.id = off]
    IN  CASE n.type \in {"Attribute", "StyleDirective"} ->
               [placed EXCEPT !.value = PlaceValue(n.value, off)]
          [] n.type \in ElementLike ->
               [placed EXCEPT !.attributes = PlaceAll(n.attributes, off + 1),
                              !.children = PlaceAll(n.children, off + 2 + Len(n.attributes))]
          [] n.type = "Options" ->
               [placed EXCEPT !.attributes = PlaceAll(n.attributes, off + 1)]
          [] n.type \in {"IfBlock", "EachBlock"} ->
               [placed EXCEPT !.children = PlaceAll(n.children, off + 1),
                              !.else = PlaceAll(n.else, off + 2 + SizeOfAll(n.children))]
          [] n.type = "ElseBlock" ->
               [placed EXCEPT !.id = 0 - (4000 + off), !.children = PlaceAll(n.children, off)]
          [] n.type = "PendingBlock" ->
               [placed EXCEPT !.id = 0 - (1000 + off), !.children = PlaceAll(n.children, off)]
          [] n.type = "ThenBlock" ->
               [placed EXCEPT !.id = 0 - (2000 + off),
                              !.children = PlaceAll(n.children, off + 1)]
          [] n.type = "CatchBlock" ->
               [placed EXCEPT !.id = 0 - (3000 + off),
                              !.children = PlaceAll(n.children, off + 1)]
          [] n.type = "AwaitBlock" ->
               [placed EXCEPT !.pending = PlaceAll(n.pending, off + 1),
                              !.then = PlaceAll(n.then, off + 1 + SizeOfAll(n.pending)),
                              !.catch = PlaceAll(n.catch, off + 1 + SizeOfAll(n.pending)
                                                          + SizeOfAll(n.then))]
          [] OTHER -> placed
PlaceAll(ns, off) ==
    IF ns = <<>> THEN <<>>
    ELSE <<Place(Head(ns), off)>> \o PlaceAll(Tail(ns), off + SizeOf(Head(ns)))

IsSection(n) == n.type \in {"Script", "Style"}
IsMarkup(n) == ~IsSection(n)

FindOr(matches, default) == IF matches = <<>> THEN default ELSE Head(matches)

\* The parse result of a source made of the given top-level items: the
\* sections are cut out of the markup, which keeps the other items in order.
Parse(items) ==
    LET placed == PlaceAll(items, 0)
        IsModule(n) == n.type = "Script" /\ n.name = "module"
        IsInstance(n) == n.type = "Script" /\ n.name = "instance"
        IsStyle(n) == n.type = "Style"
        markup == SelectSeq(placed, IsMarkup)
        text == AtomsOfAll(items)
        \* the parser's html.start / html.end: the markup without the
        \* whitespace around it
        from == IF markup = <<>> THEN 0 ELSE markup[1].start
        to == IF markup = <<>> THEN 0 ELSE Last(markup).end
        lead == Len(LeadingWs(SubSeq(text, from + 1, Len(text))))
        trail == Len(TrailingWs(SubSeq(text, 1, to)))
    IN  [html |-> [Node("Fragment", "", <<>>, <<>>, markup)
                     EXCEPT !.start = IF from + lead < to THEN from + lead ELSE to,
                            !.end = IF to - trail > from THEN to - trail ELSE from,
                            !.id = -2],
         module |-> FindOr(SelectSeq(placed, IsModule), NoNode),
         instance |-> FindOr(SelectSeq(placed, IsInstance), NoNode),
         css |-> FindOr(SelectSeq(placed, IsStyle), NoNode),
         text |-> text]


\* ------------------------------------------------- classification helpers
BlockTags == {"div"}
PreTags == {"pre"}
SelfClosingTags == {"br"}

isBlockElement(node, options) == node.type = "Element" /\ node.name \in BlockTags
isPreTagElement(node) == node.type = "Element" /\ node.name \in PreTags
isInlineElement(ctx, options, node) ==
    node.type = "Element" /\ ~isBlockElement(node, options) /\ ~isPreTagElement(node)

\* isPreTagContent(path) for the path of `node` below the context ctx.
isPreTagContent(node, ctx) == ctx.pre \/ isPreTagElement(node) \/ node.type = "Attribute"

isNodeTopLevelHTML(node, ctx) ==
    \E i \in 1..Len(ctx.htmlChildren) : ctx.htmlChildren[i].id = node.id

IndexOfNode(ns, node) ==
    IF \E i \in 1..Len(ns) : ns[i].id = node.id
    THEN CHOOSE i \in 1..Len(ns) : ns[i].id = node.id /\ \A j \in 1..(i - 1) : ns[j].id # node.id
    ELSE 0

\* getNextNode: the sibling that starts where the node ends.
getNextNode(node, ctx) ==
    LET Starts(c) == c.start = node.end IN FindOr(SelectSeq(ctx.siblings, Starts), NoNode)

\* doesEmbedStartAfterNode: a script or style section lies between the end
\* of the node and the start of its next sibling.
doesEmbedStartAfterNode(node, ctx, siblings) ==
    /\ isNodeTopLevelHTML(node, ctx)
    /\ LET idx == IndexOfNode(siblings, node)
           hasNext == idx + 1 <= Len(siblings)
       IN  \E n \in {ctx.root.css, ctx.root.instance, ctx.root.module} :
               /\ n.type # "None"
               /\ n.start >= node.end
               /\ (~hasNext \/ n.end <= siblings[idx + 1].start)

\* ------------------------------------------------ printer state and result
\* The module-level variables of the printer as they are threaded through one
\* invocation, with the log of dispatched nodes and whether an error was
\* thrown (after which nothing more is executed).  log has one entry per
\* node handed to print, in dispatch order; assembled has one entry per
\* child list that printChildren put together.
Ret(d, st) == [doc |-> d, st |-> st]

Event(node, ctx, st, isVerbatim, d) ==
    [id |-> node.id, type |-> node.type, name |-> node.name, node |-> node,
     parent |-> ctx.parent, parentType |-> ctx.parentType,
     top |-> isNodeTopLevelHTML(node, ctx),
     empty |-> (node.type = "Text" /\ isEmptyTextNode(node)),
     pre |-> isPreTagContent(node, ctx),
     start |-> node.start, end |-> node.end,
     verbatim |-> isVerbatim, doc |-> d,
     nextBefore |-> st.ignoreNext, rangeBefore |-> st.ignoreRange]

Logged(st, ev) == [st EXCEPT !.log = Append(@, ev)]
Throw(st) == [st EXCEPT !.failed = TRUE]

\* originalText.slice(start, end).split('\n')
RECURSIVE SplitLines(_, _)
SplitLines(t, cur) ==
    IF t = <<>> THEN <<cur>>
    ELSE IF Head(t) = "\n" THEN <<cur>> \o SplitLines(Tail(t), <<>>)
    ELSE SplitLines(Tail(t), Append(cur, Head(t)))

\* .map((o, i) => (i == 0 ? [o] : [literalline, o])), flattened
printVerbatim(slice) ==
    LET pieces == SplitLines(slice, <<>>)
    IN  Flatten([i \in 1..Len(pieces) |->
                    IF i = 1 THEN pieces[i] ELSE literalline \o pieces[i]])

printComment(node) == groupConcat(<< <<"<!--">>, <<node.name>>, <<"-->">> >>)

\* text.split(/[\t\n\f\r ]+/)
RECURSIVE SplitWords(_, _, _)
SplitWords(t, cur, inWs) ==
    IF t = <<>> THEN <<cur>>
    ELSE IF Head(t) \in Whitespace
         THEN IF inWs THEN SplitWords(Tail(t), cur, TRUE)
              ELSE <<cur>> \o SplitWords(Tail(t), "", TRUE)
         ELSE SplitWords(Tail(t), cur \o Head(t), FALSE)

\* splitTextToDocs without the two statements that add the second hard line.
splitTextToDocsSingleBreak(node) ==
    LET text == getUnencodedText(node)
        words == SplitWords(text, "", FALSE)
        NotEmpty(tok) == tok # ""
        joined == SelectSeq(Flatten(join(line, [i \in 1..Len(words) |-> <<words[i]>>])), NotEmpty)
        d1 == IF startsWithLinebreak(text, 1) THEN [joined EXCEPT ![1] = "hardline"] ELSE joined
        d3 == IF endsWithLinebreak(text, 1) THEN [d1 EXCEPT ![Len(d1)] = "hardline"] ELSE d1
    IN  d3

splitTextToDocs(node) ==
    LET text == getUnencodedText(node)
        words == SplitWords(text, "", FALSE)
        NotEmpty(tok) == tok # ""
        joined == SelectSeq(Flatten(join(line, [i \in 1..Len(words) |-> <<words[i]>>])), NotEmpty)
        d1 == IF startsWithLinebreak(text, 1) THEN [joined EXCEPT ![1] = "hardline"] ELSE joined
        d2 == IF startsWithLinebreak(text, 2) THEN hardline \o d1 ELSE d1
        d3 == IF endsWithLinebreak(text, 1) THEN [d2 EXCEPT ![Len(d2)] = "hardline"] ELSE d2
        d4 == IF endsWithLinebreak(text, 2) THEN d3 \o hardline ELSE d3
    IN  d4

\* The Text case with the tests for one and for two newlines in the wrong
\* order.
printTextNewlineFirst(node, ctx) ==
    IF ~isPreTagContent(node, ctx)
    THEN IF isEmptyTextNode(node)
         THEN LET text == getUnencodedText(node)
                  hasWhiteSpace == Len(TrimChars(text)) < Len(text)
                  hasOneOrMoreNewlines == CountNewlines(text) >= 1
              IN  IF hasOneOrMoreNewlines THEN hardline
                  ELSE IF hasWhiteSpace THEN line
                  ELSE <<>>
         ELSE fill(splitTextToDocs(node))
    ELSE IF ctx.parentType = "Attribute"
         THEN printVerbatim(node.raw)
         ELSE getUnencodedText(node)

\* print, case 'Text'
printText(node, ctx) ==
    IF ~isPreTagContent(node, ctx)
    THEN IF isEmptyTextNode(node)
         THEN LET text == getUnencodedText(node)
                  hasWhiteSpace == Len(TrimChars(text)) < Len(text)
                  hasOneOrMoreNewlines == CountNewlines(text) >= 1
                  hasTwoOrMoreNewlines == CountNewlines(text) >= 2
              IN  IF hasTwoOrMoreNewlines THEN concat(<<hardline, hardline>>)
                  ELSE IF hasOneOrMoreNewlines THEN hardline
                  ELSE IF hasWhiteSpace THEN line
                  ELSE <<>>
         ELSE fill(splitTextToDocs(node))
    ELSE IF ctx.parentType = "Attribute"
         THEN Flatten([i \in 1..Len(SplitLines(node.raw, <<>>)) |->
                          IF i = 1 THEN SplitLines(node.raw, <<>>)[i]
                          ELSE literalline \o SplitLines(node.raw, <<>>)[i]])
         ELSE getUnencodedText(node)


\* ------------------------------------------------------------- the printer
RECURSIVE print(_, _, _)

\* path.map(print, ...): the nodes are printed in order; docs holds one doc
\* per node.
RECURSIVE printEach(_, _, _, _)
printEach(nodes, ctx, st, docs) ==
    IF nodes # <<>> /\ ~st.failed
    THEN LET Printed(r) ==
                 IF r.st.failed THEN [docs |-> docs, st |-> r.st]
                 ELSE printEach(Tail(nodes), ctx, r.st, Append(docs, r.doc))
         IN  Printed(print(Head(nodes), ctx, st))
    ELSE [docs |-> docs, st |-> st]

ChildCtx(node, ctx, siblings) ==
    [ctx EXCEPT !.parent = node.id, !.parentType = node.type, !.siblings = siblings,
                !.pre = isPreTagContent(node, ctx),
                !.htmlChildren = IF node.type = "Fragment" THEN siblings ELSE @]

getAttributeLine(node, options) == line

\* path.map(printWithPrependedAttributeLine(node, options, print), 'attributes')
printAttributes(node, ctx, st) ==
    LET Mapped(r) ==
            IF r.st.failed THEN [docs |-> <<>>, st |-> r.st]
            ELSE [docs |-> [i \in 1..Len(r.docs) |->
                               concat(<<getAttributeLine(node, ctx.options), r.docs[i]>>)],
                  st |-> r.st]
    IN  Mapped(printEach(node.attributes, ChildCtx(node, ctx, node.children), st, <<>>))

isBracketSameLine(options) == options.bracketSameLine

\* The Comment case without the top-level test on range directives.
printCommentCaseAnyLevel(node, ctx, st) ==
    LET nodeAfterComment == getNextNode(node, ctx)
    IN  IF isIgnoreStartDirective(node)
        THEN Ret(printComment(node), [st EXCEPT !.ignoreRange = TRUE])
        ELSE IF isIgnoreEndDirective(node)
        THEN Ret(printComment(node), [st EXCEPT !.ignoreRange = FALSE])
        ELSE IF \/ doesEmbedStartAfterNode(node, ctx, ctx.siblings)
                \/ /\ isEmptyTextNode(nodeAfterComment)
                   /\ doesEmbedStartAfterNode(nodeAfterComment, ctx, ctx.siblings)
        THEN Ret(<<>>, st)
        ELSE IF isIgnoreDirective(node)
        THEN Ret(printComment(node), [st EXCEPT !.ignoreNext = TRUE])
        ELSE Ret(printComment(node), st)

\* print, case 'Comment'
printCommentCase(node, ctx, st) ==
    LET nodeAfterComment == getNextNode(node, ctx)
    IN  IF isIgnoreStartDirective(node) /\ isNodeTopLevelHTML(node, ctx)
        THEN Ret(printComment(node), [st EXCEPT !.ignoreRange = TRUE])
        ELSE IF isIgnoreEndDirective(node) /\ isNodeTopLevelHTML(node, ctx)
        THEN Ret(printComment(node), [st EXCEPT !.ignoreRange = FALSE])
        ELSE IF \/ doesEmbedStartAfterNode(node, ctx, ctx.siblings)
                \/ /\ isEmptyTextNode(nodeAfterComment)
                   /\ doesEmbedStartAfterNode(nodeAfterComment, ctx, ctx.siblings)
        THEN Ret(<<>>, st)
        ELSE IF isIgnoreDirective(node)
        THEN Ret(printComment(node), [st EXCEPT !.ignoreNext = TRUE])
        ELSE Ret(printComment(node), st)

\* print, case 'Options' falling through to 'Body'
printBody(node, ctx, st) ==
    LET bracketSameLine == isBracketSameLine(ctx.options)
        Attributed(a) ==
            IF a.st.failed THEN Ret(<<>>, a.st)
            ELSE Ret(groupConcat(<< <<"<">>, <<node.name>>,
                         indent(groupConcat(a.docs \o
                             <<IF bracketSameLine THEN <<>> ELSE dedent(line)>>)),
                         IF bracketSameLine THEN <<" ">> ELSE <<>>, <<"/>">> >>),
                     a.st)
    IN  Attributed(printAttributes(node, ctx, st))

printOptionsCase(node, ctx, st) ==
    IF ctx.options.svelteSortOrder # "none"
    THEN Ret(<<>>, Throw(st))
    ELSE printBody(node, ctx, st)

\* printJS: the embedded expression is printed by the script sub-printer.
printJS(node) == <<node.expression.name>>

\* print, case 'MustacheTag'
printMustacheTag(node, ctx, st) == Ret(concat(<< <<"{">>, printJS(node), <<"}">> >>), st)

\* ------------------------------------------------------- prepareChildren
\* isCommentFollowedByOptions looking at the next child only.
isCommentFollowedByOptionsDirectly(children, node, idx) ==
    IF node.type # "Comment" \/ isIgnoreEndDirective(node) \/ isIgnoreStartDirective(node)
    THEN FALSE
    ELSE idx + 1 <= Len(children) /\ children[idx + 1].type = "Options"

isCommentFollowedByOptions(children, node, idx) ==
    IF node.type # "Comment" \/ isIgnoreEndDirective(node) \/ isIgnoreStartDirective(node)
    THEN FALSE
    ELSE IF idx + 1 <= Len(children)
         THEN IF isEmptyTextNode(children[idx + 1])
              THEN idx + 2 <= Len(children) /\ children[idx + 2].type = "Options"
              ELSE children[idx + 1].type = "Options"
         ELSE FALSE

\* printSvelteOptions: the options tag is printed into svelteOptionsDoc, with
\* the captured comment of this prepareChildren call before it.
printSvelteOptions(node, svelteOptionsComment, parent, ctx, st) ==
    LET bracketSameLine == isBracketSameLine(ctx.options)
        Tagged(a, tag) ==
            [a.st EXCEPT !.svelteOptionsDoc =
                IF svelteOptionsComment # <<>>
                THEN groupConcat(<<svelteOptionsComment, hardline, tag>>)
                ELSE tag]
        Attributed(a) ==
            IF a.st.failed THEN a.st
            ELSE Tagged(a, groupConcat(<<
                     groupConcat(<< <<"<">>, <<node.name>>,
                         indent(groupConcat(a.docs \o
                             <<IF bracketSameLine THEN <<>> ELSE dedent(line)>>)),
                         IF bracketSameLine THEN <<" ">> ELSE <<>>, <<"/>">> >>),
                     hardline >>))
    IN  Attributed(printAttributes(node, ChildCtx(parent, ctx, parent.children), st))

\* The first loop of prepareChildren: kept is childrenWithoutOptions.
RECURSIVE removeOptions(_, _, _, _, _, _, _)
removeOptions(children, idx, kept, svelteOptionsComment, parent, ctx, st) ==
    IF idx <= Len(children) /\ ~st.failed
    THEN LET currentChild == children[idx]
             sorted == ctx.options.svelteSortOrder # "none"
             \* which branch of the loop body the child takes
             branch ==
                 IF currentChild.type = "Text" /\ getUnencodedText(currentChild) = <<>>
                 THEN "continue"
                 ELSE IF /\ isEmptyTextNode(currentChild)
                         /\ doesEmbedStartAfterNode(currentChild, ctx, ctx.siblings)
                 THEN "continue"
                 ELSE IF sorted /\ isCommentFollowedByOptions(children, currentChild, idx)
                 THEN "comment"
                 ELSE IF sorted /\ currentChild.type = "Options"
                 THEN "options"
                 ELSE "keep"
         IN  CASE branch = "continue" ->
                    removeOptions(children, idx + 1, kept, svelteOptionsComment, parent,
                                  ctx, st)
               [] branch = "comment" ->
                    removeOptions(children,
                        idx + 1 + (IF isEmptyTextNode(children[idx + 1]) THEN 1 ELSE 0),
                        kept, printComment(currentChild), parent, ctx, st)
               [] branch = "options" ->
                    removeOptions(children, idx + 1, kept, svelteOptionsComment, parent, ctx,
                        printSvelteOptions(currentChild, svelteOptionsComment, parent, ctx,
                                           st))
               [] branch = "keep" ->
                    removeOptions(children, idx + 1, Append(kept, currentChild),
                                  svelteOptionsComment, parent, ctx, st)
    ELSE [children |-> kept, st |-> st]

\* The second loop of prepareChildren: a Text child followed by a Text child
\* takes over its content, and the follower is skipped.
RECURSIVE mergeTexts(_, _)
\* mergeTexts skipping the follower without taking over its content.
mergeTextsDropFollower(childrenWithoutOptions, idx) ==
    IF idx > Len(childrenWithoutOptions) THEN <<>>
    ELSE LET currentChild == childrenWithoutOptions[idx]
             hasNext == idx + 1 <= Len(childrenWithoutOptions)
         IN  IF currentChild.type = "Text" /\ hasNext
                /\ childrenWithoutOptions[idx + 1].type = "Text"
             THEN <<currentChild>> \o mergeTexts(childrenWithoutOptions, idx + 2)
             ELSE <<currentChild>> \o mergeTexts(childrenWithoutOptions, idx + 1)

mergeTexts(childrenWithoutOptions, idx) ==
    IF idx > Len(childrenWithoutOptions) THEN <<>>
    ELSE LET currentChild == childrenWithoutOptions[idx]
             hasNext == idx + 1 <= Len(childrenWithoutOptions)
         IN  IF currentChild.type = "Text" /\ hasNext
                /\ childrenWithoutOptions[idx + 1].type = "Text"
             THEN <<[currentChild EXCEPT !.raw = @ \o childrenWithoutOptions[idx + 1].raw]>>
                  \o mergeTexts(childrenWithoutOptions, idx + 2)
             ELSE <<currentChild>> \o mergeTexts(childrenWithoutOptions, idx + 1)

prepareChildren(children, parent, ctx, st) ==
    LET Merged(r) ==
            IF r.st.failed THEN [children |-> <<>>, st |-> r.st]
            ELSE [children |-> mergeTexts(r.children, 1), st |-> r.st]
    IN  Merged(removeOptions(children, 1, <<>>, <<>>, parent, ctx, st))

\* --------------------------------------------------------- printChildren
Has(ns, i) == 1 <= i /\ i <= Len(ns)

\* handleTextChild up to its printChild call: the trimmed text node, the
\* child docs and handleWhitespaceOfPrevTextNode.
handleTextChild(idx, childNodes, childDocs, ctx) ==
    LET childNode == childNodes[idx]
        options == ctx.options
    IN  IF idx = 1 \/ idx = Len(childNodes)
        THEN [node |-> childNode, docs |-> childDocs, flag |-> FALSE]
        ELSE LET prevNode == childNodes[idx - 1]
                 nextNode == childNodes[idx + 1]
                 atStart == isTextNodeStartingWithWhitespace(childNode) /\ ~isEmptyTextNode(childNode)
                 glueLeft == atStart /\ isInlineElement(ctx, options, prevNode)
                             /\ ~isTextNodeStartingWithLinebreak(childNode, 1)
                 n1 == IF glueLeft THEN trimTextNodeLeft(childNode) ELSE childNode
                 docs1 == IF glueLeft
                          THEN Append(Front(childDocs), groupConcat(<<Last(childDocs), line>>))
                          ELSE childDocs
                 n2 == IF atStart /\ isBlockElement(prevNode, options)
                          /\ ~isTextNodeStartingWithLinebreak(n1, 1)
                       THEN trimTextNodeLeft(n1) ELSE n1
                 atEnd == isTextNodeEndingWithWhitespace(n2)
                 toInline == atEnd /\ isInlineElement(ctx, options, nextNode)
                             /\ ~isTextNodeEndingWithLinebreak(n2, 1)
                 n3 == IF toInline THEN trimTextNodeRight(n2) ELSE n2
                 toBlock == atEnd /\ isBlockElement(nextNode, options)
                            /\ ~isTextNodeEndingWithLinebreak(n3, 2)
                 n4 == IF toBlock THEN trimTextNodeRight(n3) ELSE n3
             IN  [node |-> n4, docs |-> docs1,
                  flag |-> (toInline \/ toBlock) /\ ~isBlockElement(prevNode, options)]

softlineBeforeBlock(idx, childNodes, handleWhitespaceOfPrevTextNode, ctx) ==
    /\ Has(childNodes, idx - 1)
    /\ LET prevChild == childNodes[idx - 1]
       IN  /\ ~isBlockElement(prevChild, ctx.options)
           /\ \/ prevChild.type # "Text"
              \/ handleWhitespaceOfPrevTextNode
              \/ ~isTextNodeEndingWithWhitespace(prevChild)

\* softlineAfterBlock without the case of an empty text followed by an
\* inline element.
softlineAfterBlockTextOnly(idx, childNodes, ctx) ==
    /\ Has(childNodes, idx + 1)
    /\ LET nextChild == childNodes[idx + 1]
       IN  \/ nextChild.type # "Text"
           \/ /\ ~isEmptyTextNode(nextChild)
              /\ ~isTextNodeStartingWithLinebreak(nextChild, 1)

softlineAfterBlock(idx, childNodes, ctx) ==
    /\ Has(childNodes, idx + 1)
    /\ LET nextChild == childNodes[idx + 1]
       IN  \/ nextChild.type # "Text"
           \/ /\ \/ ~isEmptyTextNode(nextChild)
                 \/ /\ Has(childNodes, idx + 2)
                    /\ isInlineElement(ctx, ctx.options, childNodes[idx + 2])
              /\ ~isTextNodeStartingWithLinebreak(nextChild, 1)

\* The loop of printChildren over childNodes, from index i.
RECURSIVE childLoop(_, _, _, _, _, _, _)
childLoop(parent, childNodes, i, childDocs, handleWhitespaceOfPrevTextNode, ctx, st) ==
    IF i <= Len(childNodes) /\ ~st.failed
    THEN LET childNode == childNodes[i]
             options == ctx.options
             \* each kind of child: the loop goes on with the printed
             \* child r, unless printing it threw
             Text(h, r) ==
                 IF r.st.failed THEN [docs |-> childDocs, st |-> r.st]
                 ELSE childLoop(parent, [childNodes EXCEPT ![i] = h.node], i + 1,
                                Append(h.docs, r.doc), h.flag, ctx, r.st)
             Handled(h) ==
                 Text(h, print(h.node,
                               ChildCtx(parent, ctx, [childNodes EXCEPT ![i] = h.node]), st))
             Block(r) ==
                 IF r.st.failed THEN [docs |-> childDocs, st |-> r.st]
                 ELSE childLoop(parent, childNodes, i + 1,
                                childDocs
                                \o (IF softlineBeforeBlock(i, childNodes,
                                          handleWhitespaceOfPrevTextNode, ctx)
                                    THEN <<softline>> ELSE <<>>)
                                \o <<r.doc>>
                                \o (IF softlineAfterBlock(i, childNodes, ctx)
                                    THEN <<softline>> ELSE <<>>),
                                FALSE, ctx, r.st)
             Inline(r) ==
                 IF r.st.failed THEN [docs |-> childDocs, st |-> r.st]
                 ELSE childLoop(parent, childNodes, i + 1,
                                Append(childDocs,
                                    IF handleWhitespaceOfPrevTextNode
                                    THEN groupConcat(<<line, r.doc>>) ELSE r.doc),
                                FALSE, ctx, r.st)
             Other(r) ==
                 IF r.st.failed THEN [docs |-> childDocs, st |-> r.st]
                 ELSE childLoop(parent, childNodes, i + 1, Append(childDocs, r.doc),
                                FALSE, ctx, r.st)
         IN  CASE childNode.type = "Text" ->
                    Handled(handleTextChild(i, childNodes, childDocs, ctx))
               [] isBlockElement(childNode, options) ->
                    Block(print(childNode, ChildCtx(parent, ctx, childNodes), st))
               [] isInlineElement(ctx, options, childNode) ->
                    Inline(print(childNode, ChildCtx(parent, ctx, childNodes), st))
               [] OTHER -> Other(print(childNode, ChildCtx(parent, ctx, childNodes), st))
    ELSE [docs |-> childDocs, st |-> st]

\* forceBreakContent without the test on the number of children.
forceBreakContentAnyLength(childNodes, options) ==
    \E i \in 1..Len(childNodes) : isBlockElement(childNodes[i], options)

forceBreakContent(childNodes, options) ==
    Len(childNodes) > 1 /\ \E i \in 1..Len(childNodes) : isBlockElement(childNodes[i], options)

printChildren(node, ctx, st) ==
    IF ~isPreTagContent(node, ctx)
    THEN LET Assembled(childNodes, l, d) ==
                 [doc |-> d,
                  st |-> [l.st EXCEPT !.assembled = Append(@,
                             [parent |-> node.id, given |-> node.children,
                              childNodes |-> childNodes, childDocs |-> l.docs,
                              doc |-> d])]]
             Looped(childNodes, l) ==
                 IF l.st.failed THEN Ret(<<>>, l.st)
                 ELSE Assembled(childNodes, l,
                          concat(l.docs \o
                                 (IF forceBreakContent(childNodes, ctx.options)
                                  THEN <<breakParent>> ELSE <<>>)))
             Prepared(p) ==
                 IF p.children = <<>> \/ p.st.failed THEN Ret(<<>>, p.st)
                 ELSE Looped(p.children,
                             childLoop(node, p.children, 1, <<>>, FALSE, ctx, p.st))
         IN  Prepared(prepareChildren(node.children, node, ctx, st))
    ELSE LET Mapped(r) == Ret(concat(r.docs), r.st)
         IN  Mapped(printEach(node.children, ChildCtx(node, ctx, node.children), st, <<>>))

\* -------------------------------------------------- print, case 'Element'
UnsupportedLanguages == {"pug"}
AlwaysHugTags == {"a"}

isNodeSupportedLanguage(node) ==
    ~\E i \in 1..Len(node.attributes) :
        LET a == node.attributes[i]
        IN  /\ a.name = "lang"
            /\ Len(a.value) = 1
            /\ a.value[1].type = "Text"
            /\ \E lang \in UnsupportedLanguages : a.value[1].raw = <<lang>>

isLoneMustacheTag(value) == Len(value) = 1 /\ value[1].type = "MustacheTag"

\* An element whose only content is one interpolation, or one of a fixed
\* set of tags, hugs its content on both sides.
isAlwaysHugging(node) ==
    node.name \in AlwaysHugTags \/ isLoneMustacheTag(node.children)

shouldHugStart(node, isSupportedLanguage, options) ==
    \/ isAlwaysHugging(node)
    \/ node.children = <<>>
    \/ ~isTextNodeStartingWithWhitespace(node.children[1])

shouldHugEnd(node, isSupportedLanguage, options) ==
    \/ isAlwaysHugging(node)
    \/ node.children = <<>>
    \/ ~isTextNodeEndingWithWhitespace(Last(node.children))

canOmitSoftlineBeforeClosingTag(node, ctx, options) ==
    node.children # <<>> /\ isBlockElement(Last(node.children), options)

\* printRaw(node, originalText, true): the source between the first and the
\* last child, without one leading and one trailing line break.
printRaw(node, originalText) ==
    IF node.children = <<>> THEN <<>>
    ELSE LET raw == Slice(originalText, node.children[1].start, Last(node.children).end)
             FirstNl(t) == CHOOSE i \in 1..Len(t) : t[i] = "\n" /\ \A j \in 1..(i - 1) : t[j] # "\n"
             LastNl(t) == CHOOSE i \in 1..Len(t) : t[i] = "\n" /\ \A j \in (i + 1)..Len(t) : t[j] # "\n"
             r1 == IF startsWithLinebreak(raw, 1) THEN SubSeq(raw, FirstNl(raw) + 1, Len(raw)) ELSE raw
             r2 == IF endsWithLinebreak(r1, 1) THEN SubSeq(r1, 1, LastNl(r1) - 1) ELSE r1
         IN  r2

RECURSIVE printPre(_, _, _, _, _)
printPre(node, i, ctx, st, result) ==
    IF i <= Len(node.children) /\ ~st.failed
    THEN LET child == node.children[i]
             Printed(r) ==
                 IF r.st.failed THEN Ret(<<>>, r.st)
                 ELSE printPre(node, i + 1, ctx, r.st, result \o r.doc)
         IN  IF child.type = "Text"
             THEN printPre(node, i + 1, ctx, st,
                      result \o printVerbatim(Slice(ctx.options.originalText,
                                                    child.start, child.end)))
             ELSE Printed(print(child, ChildCtx(node, ctx, node.children), st))
    ELSE Ret(result, st)

\* The child list as the non-hugging shapes leave it before body() runs:
\* trimTextNodeLeft(firstChild) and trimTextNodeRight(lastChild).
trimEdgeChildren(children, trimFirst, trimLast) ==
    LET c1 == IF trimFirst THEN [children EXCEPT ![1] = trimTextNodeLeft(@)] ELSE children
    IN  IF trimLast THEN [c1 EXCEPT ![Len(c1)] = trimTextNodeRight(@)] ELSE c1

\* The body of an element: `body()` of the source, for the given child list.
printElementBody(node, children, isEmpty, isSupportedLanguage, ctx, st) ==
    IF ~isEmpty /\ ~isPreTagContent(node, ctx) /\ isSupportedLanguage
    THEN printChildren([node EXCEPT !.children = children], ctx, st)
    ELSE IF isEmpty
    THEN Ret(IF /\ isInlineElement(ctx, ctx.options, node)
                /\ Len(node.children) > 0
                /\ isTextNodeStartingWithWhitespace(node.children[1])
                /\ ~isPreTagContent(node, ctx)
             THEN line
             ELSE IF isBracketSameLine(ctx.options) THEN softline ELSE <<>>, st)
    ELSE IF isPreTagContent(node, ctx)
    THEN printPre([node EXCEPT !.children = children], 1, ctx, st, <<>>)
    ELSE Ret(printRaw(node, ctx.options.originalText), st)

\* The cascade of returns of the Element case without the hug-both shape.
elementShapeNoHugBoth(isSelfClosingTag, isSupportedLanguage, isEmpty, hugStart, hugEnd) ==
    IF isSelfClosingTag THEN "selfClosing"
    ELSE IF ~isSupportedLanguage /\ ~isEmpty THEN "raw"
    ELSE IF hugStart THEN "hugStart"
    ELSE IF hugEnd THEN "hugEnd"
    ELSE IF isEmpty THEN "empty"
    ELSE "noHug"

\* The cascade of returns of the Element case: which render shape is taken.
elementShape(isSelfClosingTag, isSupportedLanguage, isEmpty, hugStart, hugEnd) ==
    IF isSelfClosingTag THEN "selfClosing"
    ELSE IF ~isSupportedLanguage /\ ~isEmpty THEN "raw"
    ELSE IF hugStart /\ hugEnd THEN "hugBoth"
    ELSE IF hugStart THEN "hugStart"
    ELSE IF hugEnd THEN "hugEnd"
    ELSE IF isEmpty THEN "empty"
    ELSE "noHug"

printElement(node, ctx, st) ==
    LET options == ctx.options
        bracketSameLine == isBracketSameLine(options)
        pre == isPreTagContent(node, ctx)
        isSupportedLanguage == ~(node.name = "template" /\ ~isNodeSupportedLanguage(node))
        isEmpty == \A i \in 1..Len(node.children) : isEmptyTextNode(node.children[i])
        isDoctypeTag == node.name = "!DOCTYPE"
        isSelfClosingTag ==
            isEmpty /\ (\/ ~options.svelteStrictMode
                        \/ node.type # "Element"
                        \/ node.name \in SelfClosingTags
                        \/ isDoctypeTag)
        children == node.children
        hasKids == children # <<>>
        hugStart == shouldHugStart(node, isSupportedLanguage, options)
        hugEnd == shouldHugEnd(node, isSupportedLanguage, options)
        inline == isInlineElement(ctx, options, node)
        closing == <<"</" \o node.name \o ">">>
        closingOpen == <<"</" \o node.name>>
        firstIsText == ~pre /\ ~hugStart /\ hasKids /\ children[1].type = "Text"
        lastIsText == ~pre /\ ~hugEnd /\ hasKids /\ Last(children).type = "Text"
        bothHard == /\ firstIsText
                    /\ isTextNodeStartingWithLinebreak(children[1], 1)
                    /\ Len(children) > 1
                    /\ (~inline \/ isTextNodeEndingWithWhitespace(Last(children)))
        noHugSeparatorStart ==
            IF pre THEN <<>>
            ELSE IF bothHard THEN hardline
            ELSE IF firstIsText /\ inline THEN line
            ELSE softline
        noHugSeparatorEnd ==
            IF pre THEN <<>>
            ELSE IF bothHard THEN hardline
            ELSE IF lastIsText /\ inline THEN line
            ELSE softline
        shape == elementShape(isSelfClosingTag, isSupportedLanguage, isEmpty, hugStart, hugEnd)
        \* the children body() sees: the shapes that do not hug trim the
        \* first and the last text child before they call it
        bodyChildren == IF shape \in {"raw", "hugBoth"} THEN children
                        ELSE trimEdgeChildren(children, firstIsText, lastIsText)
        \* the returns after the self-closing one, for the opening tag and
        \* the printed body
        Tagged(openingTag, body) ==
            IF body.st.failed THEN Ret(<<>>, body.st)
            ELSE IF shape = "raw"
            THEN Ret(groupConcat(openingTag \o
                         << <<">">>, groupConcat(<<hardline, body.doc, hardline>>), closing >>),
                     body.st)
            ELSE IF shape = "hugBoth"
            THEN LET huggedContent ==
                         concat(<<softline, groupConcat(<< <<">">>, body.doc, closingOpen >>)>>)
                     omitSoftlineBeforeClosingTag ==
                         (isEmpty /\ ~bracketSameLine)
                         \/ canOmitSoftlineBeforeClosingTag(node, ctx, options)
                 IN  Ret(groupConcat(openingTag \o
                             << IF isEmpty THEN group(huggedContent)
                                ELSE group(indent(huggedContent)),
                                IF omitSoftlineBeforeClosingTag THEN <<>> ELSE softline,
                                <<">">> >>),
                         body.st)
            ELSE IF shape = "hugStart"
            THEN Ret(groupConcat(openingTag \o
                         << indent(concat(<<softline, groupConcat(<< <<">">>, body.doc >>)>>)),
                            noHugSeparatorEnd, closing >>),
                     body.st)
            ELSE IF shape = "hugEnd"
            THEN Ret(groupConcat(openingTag \o
                         << <<">">>,
                            indent(concat(<<noHugSeparatorStart,
                                            groupConcat(<<body.doc, closingOpen>>)>>)),
                            IF canOmitSoftlineBeforeClosingTag(node, ctx, options)
                            THEN <<>> ELSE softline,
                            <<">">> >>),
                     body.st)
            ELSE IF shape = "empty"
            THEN Ret(groupConcat(openingTag \o << <<">">>, body.doc, closing >>), body.st)
            ELSE Ret(groupConcat(openingTag \o
                         << <<">">>, indent(concat(<<noHugSeparatorStart, body.doc>>)),
                            noHugSeparatorEnd, closing >>),
                     body.st)
        Attributed(a) ==
            IF a.st.failed THEN Ret(<<>>, a.st)
            ELSE IF shape = "selfClosing"
            THEN Ret(groupConcat(<< <<"<">>, <<node.name>>,
                         indent(groupConcat(a.docs \o
                             <<IF bracketSameLine \/ isDoctypeTag THEN <<>> ELSE dedent(line)>>)),
                         IF bracketSameLine /\ ~isDoctypeTag THEN <<" ">> ELSE <<>>,
                         IF isDoctypeTag THEN <<">">> ELSE <<"/>">> >>), a.st)
            ELSE Tagged(<< <<"<">>, <<node.name>>,
                           indent(groupConcat(a.docs \o
                               <<IF hugStart THEN <<>>
                                 ELSE IF ~bracketSameLine /\ ~pre THEN dedent(softline)
                                 ELSE <<>> >>)) >>,
                        printElementBody(node, bodyChildren, isEmpty, isSupportedLanguage,
                                         ctx, a.st))
    IN  Attributed(printAttributes(node, ctx, st))

\* ------------------------------------------------ print, case 'Attribute'
isAttributeShorthand(value) == Len(value) = 1 /\ value[1].type = "AttributeShorthand"

isOrCanBeConvertedToShorthand(node) ==
    \/ isAttributeShorthand(node.value)
    \/ /\ isLoneMustacheTag(node.value)
       /\ node.value[1].expression.type = "Identifier"
       /\ node.value[1].expression.name = node.name

printAttributeNodeValue(node, ctx, st) ==
    LET Mapped(r) == IF r.st.failed THEN Ret(<<>>, r.st) ELSE Ret(concat(r.docs), r.st)
    IN  Mapped(printEach(node.value, ChildCtx(node, ctx, <<>>), st, <<>>))

\* The Attribute case with the shorthand option tested before strict mode.
printAttributeShorthandFirst(node, ctx, st) ==
    LET options == ctx.options
    IN  IF isOrCanBeConvertedToShorthand(node)
        THEN IF options.svelteAllowShorthand
             THEN Ret(concat(<< <<"{">>, <<node.name>>, <<"}">> >>), st)
             ELSE IF options.svelteStrictMode
             THEN Ret(concat(<< <<node.name>>, <<"=\"{">>, <<node.name>>, <<"}\"">> >>), st)
             ELSE Ret(concat(<< <<node.name>>, <<"={">>, <<node.name>>, <<"}">> >>), st)
        ELSE IF node.valueIsTrue
        THEN Ret(concat(<< <<node.name>> >>), st)
        ELSE LET quotes == ~isLoneMustacheTag(node.value) \/ options.svelteStrictMode
                 Valued(v) ==
                     IF v.st.failed THEN Ret(<<>>, v.st)
                     ELSE IF quotes
                     THEN Ret(concat(<< <<node.name>>, <<"=">>, <<"\"">>, v.doc, <<"\"">> >>),
                              v.st)
                     ELSE Ret(concat(<< <<node.name>>, <<"=">>, v.doc >>), v.st)
             IN  Valued(printAttributeNodeValue(node, ctx, st))

printAttribute(node, ctx, st) ==
    LET options == ctx.options
    IN  IF isOrCanBeConvertedToShorthand(node)
        THEN IF options.svelteStrictMode
             THEN Ret(concat(<< <<node.name>>, <<"=\"{">>, <<node.name>>, <<"}\"">> >>), st)
             ELSE IF options.svelteAllowShorthand
             THEN Ret(concat(<< <<"{">>, <<node.name>>, <<"}">> >>), st)
             ELSE Ret(concat(<< <<node.name>>, <<"={">>, <<node.name>>, <<"}">> >>), st)
        ELSE IF node.valueIsTrue
        THEN Ret(concat(<< <<node.name>> >>), st)
        ELSE LET quotes == ~isLoneMustacheTag(node.value) \/ options.svelteStrictMode
                 Valued(v) ==
                     IF v.st.failed THEN Ret(<<>>, v.st)
                     ELSE IF quotes
                     THEN Ret(concat(<< <<node.name>>, <<"=">>, <<"\"">>, v.doc, <<"\"">> >>),
                              v.st)
                     ELSE Ret(concat(<< <<node.name>>, <<"=">>, v.doc >>), v.st)
             IN  Valued(printAttributeNodeValue(node, ctx, st))

\* --------------------------------------------------- print, directives
\* printJsExpression: the expression between the braces strict mode quotes.
printJsExpression(node, options) ==
    IF options.svelteStrictMode THEN <<"\"{">> \o printJS(node) \o <<"}\"">>
    ELSE <<"{">> \o printJS(node) \o <<"}">>

\* print, case 'Binding'
printBinding(node, ctx, st) ==
    Ret(concat(<< <<"bind:">>, <<node.name>>,
                  IF /\ node.expression.type = "Identifier"
                     /\ node.expression.name = node.name
                     /\ ctx.options.svelteAllowShorthand
                     /\ ~ctx.options.svelteStrictMode
                  THEN <<>>
                  ELSE concat(<< <<"=">>, printJsExpression(node, ctx.options) >>) >>), st)

\* print, case 'Class'
printClass(node, ctx, st) ==
    Ret(concat(<< <<"class:">>, <<node.name>>,
                  IF /\ node.expression.type = "Identifier"
                     /\ node.expression.name = node.name
                     /\ ctx.options.svelteAllowShorthand
                     /\ ~ctx.options.svelteStrictMode
                  THEN <<>>
                  ELSE concat(<< <<"=">>, printJsExpression(node, ctx.options) >>) >>), st)

\* print, case 'StyleDirective'
printStyleDirective(node, ctx, st) ==
    LET options == ctx.options
        prefix == concat(<< <<"style:">>, <<node.name>>,
                            IF node.modifiers # <<>>
                            THEN concat(<< <<"|">>,
                                           concat(join(<<"|">>,
                                               [i \in 1..Len(node.modifiers) |->
                                                   <<node.modifiers[i]>>])) >>)
                            ELSE <<>> >>)
        quotes == ~isLoneMustacheTag(node.value) \/ options.svelteStrictMode
        Valued(v) ==
            IF v.st.failed THEN Ret(<<>>, v.st)
            ELSE IF quotes
            THEN Ret(concat(<<prefix, <<"=">>, <<"\"">>, v.doc, <<"\"">> >>), v.st)
            ELSE Ret(concat(<<prefix, <<"=">>, v.doc>>), v.st)
    IN  IF isOrCanBeConvertedToShorthand(node) \/ node.valueIsTrue
        THEN IF options.svelteStrictMode
             THEN Ret(concat(<<prefix, <<"=\"{">>, <<node.name>>, <<"}\"">> >>), st)
             ELSE IF options.svelteAllowShorthand
             THEN Ret(prefix, st)
             ELSE Ret(concat(<<prefix, <<"={">>, <<node.name>>, <<"}">> >>), st)
        ELSE Valued(printAttributeNodeValue(node, ctx, st))

\* print, case 'Let'
printLet(node, ctx, st) ==
    Ret(concat(<< <<"let:">>, <<node.name>>,
                  IF \/ node.expression.type = ""
                     \/ /\ node.expression.type = "Identifier"
                        /\ node.expression.name = node.name
                  THEN <<>>
                  ELSE concat(<< <<"=">>, printJsExpression(node, ctx.options) >>) >>), st)

\* ------------------------------------------------------- print, blocks
isSvelteBlock(node) == node.type \in SvelteBlocks

\* 'line' when the block's first (last) child is a text that starts (ends)
\* with a line break, 'space' when it starts (ends) with other whitespace.
checkWhitespaceAtStartOfSvelteBlock(node, options) ==
    IF ~isSvelteBlock(node) \/ node.children = <<>> THEN "none"
    ELSE IF isTextNodeStartingWithLinebreak(Head(node.children), 1) THEN "line"
    ELSE IF isTextNodeStartingWithWhitespace(Head(node.children)) THEN "space"
    ELSE "none"

checkWhitespaceAtEndOfSvelteBlock(node, options) ==
    IF ~isSvelteBlock(node) \/ node.children = <<>> THEN "none"
    ELSE IF isTextNodeEndingWithLinebreak(Last(node.children), 1) THEN "line"
    ELSE IF isTextNodeEndingWithWhitespace(Last(node.children)) THEN "space"
    ELSE "none"

printSvelteBlockJS(node) == printJS(node)

\* expandNode for a pattern that is an identifier (or absent).
expandNode(name) == IF name = "" THEN <<>> ELSE <<" " \o name>>

printSvelteBlockChildren(node, ctx, st) ==
    IF node.children = <<>> THEN Ret(<<>>, st)
    ELSE LET whitespaceAtStartOfBlock == checkWhitespaceAtStartOfSvelteBlock(node, ctx.options)
             whitespaceAtEndOfBlock == checkWhitespaceAtEndOfSvelteBlock(node, ctx.options)
             eitherLine == whitespaceAtEndOfBlock = "line" \/ whitespaceAtStartOfBlock = "line"
             startline == IF whitespaceAtStartOfBlock = "none" THEN <<>>
                          ELSE IF eitherLine THEN hardline ELSE line
             endline == IF whitespaceAtEndOfBlock = "none" THEN <<>>
                        ELSE IF eitherLine THEN hardline ELSE line
             Printed(r) ==
                 IF r.st.failed THEN Ret(<<>>, r.st)
                 ELSE Ret(concat(<<indent(concat(<<startline, group(r.doc)>>)), endline>>),
                          r.st)
         IN  Printed(printChildren(
                         [node EXCEPT !.children = trimEdgeChildren(node.children, TRUE, TRUE)],
                         ctx, st))

\* if (node.else) def.push(path.call(print, 'else'))
printElseOf(node, ctx, st) ==
    IF node.else = <<>> THEN Ret(<<>>, st)
    ELSE print(node.else[1], ChildCtx(node, ctx, <<>>), st)

\* print, case 'IfBlock'
printIfBlock(node, ctx, st) ==
    LET Chained(body, e) ==
            IF e.st.failed THEN Ret(<<>>, e.st)
            ELSE Ret(concat(<<groupConcat(<< <<"{#if ">>, printSvelteBlockJS(node), <<"}">>,
                                             body.doc, e.doc, <<"{/if}">> >>),
                              breakParent>>), e.st)
        Bodied(body) ==
            IF body.st.failed THEN Ret(<<>>, body.st)
            ELSE Chained(body, printElseOf(node, ctx, body.st))
    IN  Bodied(printSvelteBlockChildren(node, ctx, st))

\* The ElseBlock case without the test on the parent.
printElseBlockAnyParent(node, ctx, st) ==
    IF Len(node.children) = 1 /\ node.children[1].type = "IfBlock"
    THEN LET ifNode == node.children[1]
             ifCtx == ChildCtx(node, ctx, node.children)
             Chained(body, e) ==
                 IF e.st.failed THEN Ret(<<>>, e.st)
                 ELSE Ret(concat(<< <<"{:else if ">>, printSvelteBlockJS(ifNode), <<"}">>,
                                    body.doc, e.doc >>), e.st)
             Bodied(body) ==
                 IF body.st.failed THEN Ret(<<>>, body.st)
                 ELSE Chained(body, printElseOf(ifNode, ifCtx, body.st))
         IN  Bodied(printSvelteBlockChildren(ifNode, ifCtx, st))
    ELSE LET Bodied(body) == Ret(concat(<< <<"{:else}">>, body.doc >>), body.st)
         IN  Bodied(printSvelteBlockChildren(node, ctx, st))

\* print, case 'ElseBlock'
printElseBlock(node, ctx, st) ==
    IF /\ Len(node.children) = 1
       /\ node.children[1].type = "IfBlock"
       /\ ctx.parentType # "EachBlock"
    THEN LET ifNode == node.children[1]
             ifCtx == ChildCtx(node, ctx, node.children)
             Chained(body, e) ==
                 IF e.st.failed THEN Ret(<<>>, e.st)
                 ELSE Ret(concat(<< <<"{:else if ">>, printSvelteBlockJS(ifNode), <<"}">>,
                                    body.doc, e.doc >>), e.st)
             Bodied(body) ==
                 IF body.st.failed THEN Ret(<<>>, body.st)
                 ELSE Chained(body, printElseOf(ifNode, ifCtx, body.st))
         IN  Bodied(printSvelteBlockChildren(ifNode, ifCtx, st))
    ELSE LET Bodied(body) == Ret(concat(<< <<"{:else}">>, body.doc >>), body.st)
         IN  Bodied(printSvelteBlockChildren(node, ctx, st))

\* print, case 'EachBlock' (without index and key)
printEachBlock(node, ctx, st) ==
    LET Chained(body, e) ==
            IF e.st.failed THEN Ret(<<>>, e.st)
            ELSE Ret(concat(<<groupConcat(<< <<"{#each ">>, printSvelteBlockJS(node),
                                             <<" as">>, expandNode(node.context), <<"}">>,
                                             body.doc, e.doc, <<"{/each}">> >>),
                              breakParent>>), e.st)
        Bodied(body) ==
            IF body.st.failed THEN Ret(<<>>, body.st)
            ELSE Chained(body, printElseOf(node, ctx, body.st))
    IN  Bodied(printSvelteBlockChildren(node, ctx, st))

\* The AwaitBlock case with the short catch form chosen whenever the
\* pending block is empty and the catch block is not.
printAwaitBlockCatchFirst(node, ctx, st) ==
    LET HasContent(b) == \E i \in 1..Len(b.children) : ~isEmptyTextNode(b.children[i])
        hasPendingBlock == HasContent(node.pending[1])
        hasThenBlock == HasContent(node.then[1])
        hasCatchBlock == HasContent(node.catch[1])
        sub == ChildCtx(node, ctx, <<>>)
        expression == printSvelteBlockJS(node)
        Short(tagDoc, r) == [docs |-> <<tagDoc, r.doc>>, st |-> r.st]
        Full(p) ==
            LET docs == <<groupConcat(<< <<"{#await ">>, expression, <<"}">> >>)>> \o p.docs
                Then(t) ==
                    [docs |-> docs \o <<groupConcat(<< <<"{:then">>, expandNode(node.value),
                                                       <<"}">> >>), t.doc>>,
                     st |-> t.st]
            IN  IF hasThenBlock /\ ~p.st.failed THEN Then(print(node.then[1], sub, p.st))
                ELSE [docs |-> docs, st |-> p.st]
        Pending(r) == [docs |-> <<r.doc>>, st |-> r.st]
        Closed(b) ==
            LET Catch(c) ==
                    IF c.st.failed THEN Ret(<<>>, c.st)
                    ELSE Ret(groupConcat(b.docs
                                 \o <<groupConcat(<< <<"{:catch">>, expandNode(node.error),
                                                     <<"}">> >>), c.doc, <<"{/await}">> >>),
                             c.st)
            IN  IF b.st.failed THEN Ret(<<>>, b.st)
                ELSE IF (hasPendingBlock \/ hasThenBlock) /\ hasCatchBlock
                THEN Catch(print(node.catch[1], sub, b.st))
                ELSE Ret(groupConcat(b.docs \o << <<"{/await}">> >>), b.st)
    IN  Closed(CASE ~hasPendingBlock /\ hasCatchBlock ->
                      Short(groupConcat(<< <<"{#await ">>, expression, <<" catch">>,
                                           expandNode(node.error), <<"}">> >>),
                            print(node.catch[1], sub, st))
                 [] ~(~hasPendingBlock /\ hasCatchBlock) /\ ~hasPendingBlock /\ hasThenBlock ->
                      Short(groupConcat(<< <<"{#await ">>, expression, <<" then">>,
                                           expandNode(node.value), <<"}">> >>),
                            print(node.then[1], sub, st))
                 [] OTHER ->
                      Full(IF hasPendingBlock THEN Pending(print(node.pending[1], sub, st))
                           ELSE [docs |-> <<>>, st |-> st]))

\* print, case 'AwaitBlock'
printAwaitBlock(node, ctx, st) ==
    LET HasContent(b) == \E i \in 1..Len(b.children) : ~isEmptyTextNode(b.children[i])
        hasPendingBlock == HasContent(node.pending[1])
        hasThenBlock == HasContent(node.then[1])
        hasCatchBlock == HasContent(node.catch[1])
        sub == ChildCtx(node, ctx, <<>>)
        expression == printSvelteBlockJS(node)
        Short(tagDoc, r) == [docs |-> <<tagDoc, r.doc>>, st |-> r.st]
        Full(p) ==
            LET docs == <<groupConcat(<< <<"{#await ">>, expression, <<"}">> >>)>> \o p.docs
                Then(t) ==
                    [docs |-> docs \o <<groupConcat(<< <<"{:then">>, expandNode(node.value),
                                                       <<"}">> >>), t.doc>>,
                     st |-> t.st]
            IN  IF hasThenBlock /\ ~p.st.failed THEN Then(print(node.then[1], sub, p.st))
                ELSE [docs |-> docs, st |-> p.st]
        Pending(r) == [docs |-> <<r.doc>>, st |-> r.st]
        Closed(b) ==
            LET Catch(c) ==
                    IF c.st.failed THEN Ret(<<>>, c.st)
                    ELSE Ret(groupConcat(b.docs
                                 \o <<groupConcat(<< <<"{:catch">>, expandNode(node.error),
                                                     <<"}">> >>), c.doc, <<"{/await}">> >>),
                             c.st)
            IN  IF b.st.failed THEN Ret(<<>>, b.st)
                ELSE IF (hasPendingBlock \/ hasThenBlock) /\ hasCatchBlock
                THEN Catch(print(node.catch[1], sub, b.st))
                ELSE Ret(groupConcat(b.docs \o << <<"{/await}">> >>), b.st)
    IN  Closed(CASE ~hasPendingBlock /\ hasThenBlock ->
                      Short(groupConcat(<< <<"{#await ">>, expression, <<" then">>,
                                           expandNode(node.value), <<"}">> >>),
                            print(node.then[1], sub, st))
                 [] ~(~hasPendingBlock /\ hasThenBlock) /\ ~hasPendingBlock /\ hasCatchBlock ->
                      Short(groupConcat(<< <<"{#await ">>, expression, <<" catch">>,
                                           expandNode(node.error), <<"}">> >>),
                            print(node.catch[1], sub, st))
                 [] OTHER ->
                      Full(IF hasPendingBlock THEN Pending(print(node.pending[1], sub, st))
                           ELSE [docs |-> <<>>, st |-> st]))

\* print, case 'ThenBlock' / 'PendingBlock' / 'CatchBlock'
printBranchBlock(node, ctx, st) == printSvelteBlockChildren(node, ctx, st)

\* ------------------------------------------------- print, case 'Fragment'
\* trimChildren: the text nodes up to the first and from the last child with
\* content lose their outer whitespace.
trimChildren(children, ctx) ==
    LET n == Len(children)
        Content(i) == ~isEmptyTextNode(children[i])
                      /\ ~doesEmbedStartAfterNode(children[i], ctx, children)
        ContentEnd(i) == /\ ~isEmptyTextNode(children[i])
                         /\ \/ (i = n /\ children[i].type # "Comment")
                            \/ ~doesEmbedStartAfterNode(children[i], ctx, children)
        firstNonEmptyNode ==
            IF \E i \in 1..n : Content(i)
            THEN CHOOSE i \in 1..n : Content(i) /\ \A j \in 1..(i - 1) : ~Content(j)
            ELSE n
        lastNonEmptyNode ==
            IF \E i \in 1..n : ContentEnd(i)
            THEN CHOOSE i \in 1..n : ContentEnd(i) /\ \A j \in (i + 1)..n : ~ContentEnd(j)
            ELSE 1
        left == [i \in 1..n |->
                    IF i <= firstNonEmptyNode /\ children[i].type = "Text"
                    THEN trimTextNodeLeft(children[i]) ELSE children[i]]
    IN  [i \in 1..n |->
            IF i >= lastNonEmptyNode /\ left[i].type = "Text"
            THEN trimTextNodeRight(left[i]) ELSE left[i]]

BracketTokens == {"group(", "indent(", "dedent(", "fill(", ")"}
isEmptyDoc(d) == \A i \in 1..Len(d) : d[i] \in LineTokens \cup BracketTokens \cup {""}

printFragment(node, ctx, st) ==
    IF /\ node.children # <<>>
       /\ \E i \in 1..Len(node.children) : ~isEmptyTextNode(node.children[i])
    THEN IF ~isPreTagContent(node, ctx)
         THEN LET Finished(r, output) ==
                      IF isEmptyDoc(output) THEN Ret(<<>>, r.st)
                      ELSE Ret(groupConcat(<<output, hardline>>), r.st)
                  Printed(r) ==
                      IF r.st.failed THEN Ret(<<>>, r.st)
                      ELSE Finished(r, trim(r.doc, LineTokens \cup {"breakParent"}))
                  Trimmed(trimmed) ==
                      Printed(printChildren([node EXCEPT !.children = trimmed],
                                  [ctx EXCEPT !.htmlChildren = trimmed, !.siblings = trimmed],
                                  st))
              IN  Trimmed(trimChildren(node.children, ctx))
         ELSE LET Mapped(r) == Ret(groupConcat(r.docs), r.st)
              IN  Mapped(printEach(node.children, ChildCtx(node, ctx, node.children),
                                   st, <<>>))
    ELSE Ret(<<>>, st)

\* ------------------------------------------------------- the dispatcher
\* isSuppressed without the exemption of whitespace-only text.
isSuppressedAnyNode(node, st) ==
    st.ignoreNext \/ (st.ignoreRange /\ ~isIgnoreEndDirective(node))

isSuppressed(node, st) ==
    /\ st.ignoreNext \/ (st.ignoreRange /\ ~isIgnoreEndDirective(node))
    /\ node.type # "Text" \/ ~isEmptyTextNode(node)

\* A section is printed by the embedded-language printer; its attached
\* comments come first, each followed by one or two hard lines.
RECURSIVE printSectionComments(_)
printSectionComments(comments) ==
    IF comments = <<>> THEN <<>>
    ELSE printComment(Head(comments).comment) \o hardline
         \o (IF Head(comments).emptyLineAfter THEN hardline ELSE <<>>)
         \o printSectionComments(Tail(comments))

printSection(node) ==
    printSectionComments(node.comments) \o AtomsOf(node) \o hardline

print(node, ctx, st) ==
    IF ~st.failed /\ ~IsSection(node) /\ ~isSuppressed(node, st)
    THEN LET st1 == Logged(st, Event(node, ctx, st, FALSE, <<>>))
             \* the log entry of this dispatch gets the document it returned
             Returned(r) ==
                 IF r.st.failed THEN Ret(<<>>, r.st)
                 ELSE Ret(r.doc, [r.st EXCEPT !.log[Len(st1.log)].doc = r.doc])
         IN  Returned(CASE node.type = "Fragment" -> printFragment(node, ctx, st1)
                        [] node.type = "Text" -> Ret(printText(node, ctx), st1)
                        [] node.type \in ElementLike -> printElement(node, ctx, st1)
                        [] node.type = "Options" -> printOptionsCase(node, ctx, st1)
                        [] node.type = "AttributeShorthand" -> Ret(<<node.expression.name>>, st1)
                        [] node.type = "Attribute" -> printAttribute(node, ctx, st1)
                        [] node.type = "Binding" -> printBinding(node, ctx, st1)
                        [] node.type = "Class" -> printClass(node, ctx, st1)
                        [] node.type = "StyleDirective" -> printStyleDirective(node, ctx, st1)
                        [] node.type = "Let" -> printLet(node, ctx, st1)
                        [] node.type = "MustacheTag" -> printMustacheTag(node, ctx, st1)
                        [] node.type = "Comment" -> printCommentCase(node, ctx, st1)
                        [] node.type = "IfBlock" -> printIfBlock(node, ctx, st1)
                        [] node.type = "ElseBlock" -> printElseBlock(node, ctx, st1)
                        [] node.type = "EachBlock" -> printEachBlock(node, ctx, st1)
                        [] node.type = "AwaitBlock" -> printAwaitBlock(node, ctx, st1)
                        [] node.type \in {"ThenBlock", "PendingBlock", "CatchBlock"} ->
                              printBranchBlock(node, ctx, st1)
                        [] OTHER -> Ret(<<>>, Throw(st1)))
    ELSE IF st.failed THEN Ret(<<>>, st)
    ELSE IF IsSection(node) THEN Ret(printSection(node), st)
    ELSE \* the node is inside an ignored range or follows an ignore comment
         LET d == printVerbatim(Slice(ctx.options.originalText, node.start, node.end))
         IN  Ret(d, Logged([st EXCEPT !.ignoreNext = FALSE], Event(node, ctx, st, TRUE, d)))

\* ------------------------------------------------- assignCommentsToNodes
RemoveAt(s, i) == SubSeq(s, 1, i - 1) \o SubSeq(s, i + 1, Len(s))
InsertAt(s, i, x) == SubSeq(s, 1, i - 1) \o <<x>> \o SubSeq(s, i, Len(s))

\* siblings.splice(siblings.indexOf(x), 1): an x that is not in the list has
\* index -1, and splice(-1, 1) removes the last element.
spliceOut(siblings, x) ==
    IF IndexOfNode(siblings, x) # 0 THEN RemoveAt(siblings, IndexOfNode(siblings, x))
    ELSE IF siblings = <<>> THEN siblings
    ELSE Front(siblings)

RECURSIVE spliceOutAll(_, _)
spliceOutAll(siblings, xs) ==
    IF xs = <<>> THEN siblings ELSE spliceOutAll(spliceOut(siblings, Head(xs)), Tail(xs))

\* The placeholder pushed for a comment with no whitespace text after it.
NoNewline == [TextNode(<<>>) EXCEPT !.start = -1, !.end = -1, !.id = -1]

\* The backward walk of removeAndGetLeadingComments from `node`.
RECURSIVE leadingWalk(_, _, _, _)
leadingWalk(siblings, node, comments, newlines) ==
    LET Ends(c) == c.end = node.start
        prev == FindOr(SelectSeq(siblings, Ends), NoNode)
    IN  IF prev.type = "None" THEN [comments |-> comments, newlines |-> newlines]
        ELSE IF prev.type = "Comment" /\ ~isIgnoreStartDirective(prev) /\ ~isIgnoreEndDirective(prev)
        THEN leadingWalk(siblings, prev, Append(comments, prev),
                 IF Len(comments) + 1 # Len(newlines) THEN Append(newlines, NoNewline)
                 ELSE newlines)
        ELSE IF isEmptyTextNode(prev)
        THEN leadingWalk(siblings, prev, comments, Append(newlines, prev))
        ELSE [comments |-> comments, newlines |-> newlines]

Reverse(s) == [i \in 1..Len(s) |-> s[Len(s) + 1 - i]]

removeAndGetLeadingComments(siblings, current) ==
    IF siblings = <<>> THEN [siblings |-> siblings, comments |-> <<>>]
    ELSE LET Removed(w, newlines) ==
                 [siblings |-> spliceOutAll(spliceOutAll(siblings, w.comments), newlines),
                  comments |-> Reverse([i \in 1..Len(w.comments) |->
                                  [comment |-> w.comments[i],
                                   emptyLineAfter |->
                                       CountNewlines(getUnencodedText(newlines[i])) >= 2]])]
             Walked(w) == Removed(w, SubSeq(w.newlines, 1, Len(w.comments)))
         IN  Walked(leadingWalk(siblings, current, <<>>, <<>>))

assignCommentsToNodes(ast) ==
    LET Leading(siblings, part) ==
            IF part.type # "None" THEN removeAndGetLeadingComments(siblings, part)
            ELSE [siblings |-> siblings, comments |-> <<>>]
        Assigned(m, i, c) ==
            [ast EXCEPT !.html.children = c.siblings,
                        !.module.comments = m.comments,
                        !.instance.comments = i.comments,
                        !.css.comments = c.comments]
        AfterInstance(m, i) == Assigned(m, i, Leading(i.siblings, ast.css))
        AfterModule(m) == AfterInstance(m, Leading(m.siblings, ast.instance))
    IN  AfterModule(Leading(ast.html.children, ast.module))

\* --------------------------------------------------- printTopLevelParts
hasPragma(text) ==
    LET t == TrimLeftChars(text)
    IN  t # <<>> /\ Head(t) \in {"<!-- @format -->", "<!-- @prettier -->"}

\* parseSortOrder: the parts of the sort order in order; 'options' is put
\* first when the (legacy) order does not name it.
parseSortOrder(sortOrder) ==
    CASE sortOrder = "none" -> <<>>
      [] sortOrder = "options-scripts-markup-styles" -> <<"options", "scripts", "markup", "styles">>
      [] sortOrder = "styles-scripts-markup-options" -> <<"styles", "scripts", "markup", "options">>
      [] sortOrder = "markup-options-styles-scripts" -> <<"markup", "options", "styles", "scripts">>
      [] sortOrder = "scripts-markup-styles" -> <<"options", "scripts", "markup", "styles">>
      [] sortOrder = "styles-markup-scripts" -> <<"options", "styles", "markup", "scripts">>

\* The loop that puts the sections back into the markup children when the
\* sort order is 'none': a section goes before the child that starts at the
\* section's end offset.
RECURSIVE insertTopLevelParts(_, _, _)
insertTopLevelParts(children, i, topLevelPartsByEnd) ==
    IF i > Len(children) THEN children
    ELSE LET node == children[i]
             hit == {p \in topLevelPartsByEnd : p.end = node.start}
         IN  IF hit # {}
             THEN LET part == CHOOSE p \in hit : TRUE
                  IN  insertTopLevelParts(InsertAt(children, i, part), i + 1,
                          topLevelPartsByEnd \ {part})
             ELSE insertTopLevelParts(children, i + 1, topLevelPartsByEnd)

PresentParts(n) == {p \in {n.module, n.instance, n.css} : p.type # "None"}

RootCtx(n, options) ==
    [options |-> options, root |-> n, htmlChildren |-> n.html.children,
     siblings |-> n.html.children, parent |-> -1, parentType |-> "Root", pre |-> FALSE]

\* trimRight([lastDoc], isLine): the line that ends the last document, inside
\* its closing brackets, is removed.
RECURSIVE trimRightInside(_)
trimRightInside(d) ==
    IF d = <<>> THEN d
    ELSE IF Last(d) = ")" THEN Append(trimRightInside(Front(d)), ")")
    ELSE IF isLine(Last(d)) THEN trimRightDoc(d, LineTokens)
    ELSE d

printTopLevelParts(n, options, st) ==
    LET scripts == (IF n.module.type # "None" THEN <<printSection(n.module)>> ELSE <<>>)
                   \o (IF n.instance.type # "None" THEN <<printSection(n.instance)>> ELSE <<>>)
        styles == IF n.css.type # "None" THEN <<printSection(n.css)>> ELSE <<>>
        order == parseSortOrder(options.svelteSortOrder)
        Joined(r, docs) ==
            [doc |-> IF options.insertPragma /\ ~hasPragma(options.originalText)
                     THEN concat(<< <<"<!-- @format -->">>, hardline,
                                    groupConcat(docs) >>)
                     ELSE groupConcat(<<concat(join(hardline, docs))>>),
             st |-> [r.st EXCEPT !.ignoreNext = FALSE, !.ignoreRange = FALSE,
                                 !.svelteOptionsDoc = <<>>],
             exit |-> r.st, sections |-> docs]
        Ordered(r, docs) ==
            Joined(r, IF options.parentParser = "markdown" /\ docs # <<>>
                      THEN [docs EXCEPT ![Len(docs)] = trimRightInside(@)]
                      ELSE docs)
        \* svelteSortOrder 'none': the sections are children of the markup
        Unsorted(r) ==
            [doc |-> IF options.insertPragma /\ ~hasPragma(options.originalText)
                     THEN concat(<< <<"<!-- @format -->">>, hardline, r.doc >>)
                     ELSE r.doc,
             st |-> r.st, exit |-> r.st, sections |-> <<>>]
        Sorted(r) ==
            LET htmlDoc == r.doc
                markup == IF htmlDoc # <<>> \/ isSuppressed(n.html, st)
                          THEN <<htmlDoc>> ELSE <<>>
                opts == IF r.st.svelteOptionsDoc # <<>>
                        THEN <<r.st.svelteOptionsDoc>> ELSE <<>>
            IN  Ordered(r, Flatten([i \in 1..Len(order) |->
                               CASE order[i] = "options" -> opts
                                 [] order[i] = "scripts" -> scripts
                                 [] order[i] = "markup" -> markup
                                 [] order[i] = "styles" -> styles]))
        Printed(r) ==
            IF r.st.failed
            THEN [doc |-> <<>>, st |-> r.st, exit |-> r.st, sections |-> <<>>]
            ELSE IF options.svelteSortOrder = "none" THEN Unsorted(r)
            ELSE Sorted(r)
        tree == IF options.svelteSortOrder = "none"
                THEN [n EXCEPT !.html.children =
                         insertTopLevelParts(n.html.children, 1, PresentParts(n))]
                ELSE n
    IN  Printed(print(tree.html, RootCtx(tree, options), st))

\* print on the root of the tree, started with the module-level variables
\* as the previous invocation left them.
printRoot(ast, options, globals) ==
    LET st == [ignoreNext |-> globals.ignoreNext, ignoreRange |-> globals.ignoreRange,
               svelteOptionsDoc |-> globals.svelteOptionsDoc, log |-> <<>>,
               assembled |-> <<>>, failed |-> FALSE]
    IN  printTopLevelParts(assignCommentsToNodes(ast), options, st)

\* ---------------------------------------------------------------- inputs
Options(sortOrder, strict, shorthand, sameLine, pragma, parent, text) ==
    [svelteSortOrder |-> sortOrder, svelteStrictMode |-> strict,
     svelteAllowShorthand |-> shorthand, bracketSameLine |-> sameLine,
     insertPragma |-> pragma, parentParser |-> parent, originalText |-> text]

DefaultSortOrder == "options-scripts-markup-styles"

\* What the parser never produces: two adjacent Text nodes, or more than one
\* options tag.
RECURSIVE WellFormed(_)
WellFormed(ns) ==
    /\ \A i \in 1..(Len(ns) - 1) : ~(ns[i].type = "Text" /\ ns[i + 1].type = "Text")
    /\ Cardinality({i \in 1..Len(ns) : ns[i].type = "Options"}) <= 1
    /\ \A i \in 1..Len(ns) : ns[i].type \in ElementLike => WellFormed(ns[i].children)

\* All child lists of exactly n nodes, nested ones included, over the given
\* leaves and element names.
RECURSIVE ForestsOf(_, _, _, _)
ForestsOf(n, leaves, kidLeaves, names) ==
    IF n = 0 THEN {<<>>}
    ELSE UNION {
           {<<t>> \o f :
               t \in (IF k = 1 THEN leaves ELSE {})
                     \cup {ElementNode(nm, <<>>, kids) :
                              nm \in names,
                              kids \in ForestsOf(k - 1, kidLeaves, kidLeaves, names)},
               f \in ForestsOf(n - k, leaves, kidLeaves, names)}
           : k \in 1..n}

ForestsUpTo(n, leaves, kidLeaves, names) ==
    {f \in UNION {ForestsOf(k, leaves, kidLeaves, names) : k \in 0..n} : WellFormed(f)}

Input(items, options) == [items |-> items, options |-> options]

\* Markup with ignore directives, an options tag, an interpolation and a node
\* of a kind the printer does not know.
NestedLeaves ==
    {TextNode(<<"a">>), TextNode(<<"\n">>),
     CommentNode("prettier-ignore"), CommentNode("prettier-ignore-start"),
     CommentNode("prettier-ignore-end"),
     MustacheTagNode(Expr("Identifier", "x")), UnknownNode}
TopLeaves == NestedLeaves \cup {OptionsNode(<<>>)}

SuppressionInputs ==
    {Input(items, Options(order, FALSE, TRUE, FALSE, FALSE, "", AtomsOfAll(items))) :
        items \in ForestsUpTo(MaxNodes, TopLeaves, NestedLeaves, {"b"}),
        order \in {"none", DefaultSortOrder}}

\* Sources with script and style sections, an options tag and a pragma
\* comment around a little markup, under every sort order, with and without
\* pragma insertion and the markdown parent.
MaxItems == 3

SortOrders ==
    {"none", DefaultSortOrder, "styles-scripts-markup-options", "markup-options-styles-scripts"}

SectionLeaves ==
    {ScriptNode("module"), ScriptNode("instance"), StyleNode, OptionsNode(<<>>),
     CommentNode("@format"), TextNode(<<"a">>), TextNode(<<"\n">>), ElementNode("b", <<>>, <<>>)}

AtMostOnce(items, n) == Cardinality({i \in 1..Len(items) : items[i] = n}) <= 1

SectionItems ==
    {items \in SeqsUpTo(SectionLeaves, MaxItems) :
        /\ WellFormed(items)
        /\ \A n \in {ScriptNode("module"), ScriptNode("instance"), StyleNode} :
              AtMostOnce(items, n)}

SectionInputs ==
    {Input(items, Options(order, FALSE, TRUE, FALSE, pragma, parent, AtomsOfAll(items))) :
        items \in SectionItems, order \in SortOrders, pragma \in BOOLEAN,
        parent \in {"", "markdown"}}

\* Child lists with block, inline and preformatted elements, texts with and
\* without whitespace at their edges, interpolations and an options tag.
FlowLeaves ==
    {TextNode(<<"a">>), TextNode(<<" ">>), TextNode(<<" ", "a", "\n">>),
     MustacheTagNode(Expr("Identifier", "x"))}

FlowInputs ==
    {Input(items, Options(order, FALSE, TRUE, sameLine, FALSE, "", AtomsOfAll(items))) :
        items \in ForestsUpTo(MaxNodes, FlowLeaves \cup {OptionsNode(<<>>)}, FlowLeaves,
                              {"b", "div", "pre"}),
        order \in {"none", DefaultSortOrder}, sameLine \in BOOLEAN}

\* Elements and components of every hugging class around one interpolation
\* (alone, or with text or whitespace next to it), with and without a
\* foreign content language, alone, after a text or inside another element.
LangAttr(lang) == AttrNode("Attribute", "lang", <<TextNode(<<lang>>)>>, FALSE, NoExpr)

HugKids ==
    LET x == MustacheTagNode(Expr("Identifier", "x"))
    IN  {<<>>, <<x>>, <<TextNode(<<" ">>), x>>, <<x, TextNode(<<" ">>)>>,
         <<TextNode(<<"\n", "a">>), x>>, <<x, x>>}

HugElements ==
    {ElementNode(nm, attrs, kids) :
        nm \in {"b", "div", "a", "pre", "template"},
        attrs \in {<<>>, <<LangAttr("pug")>>, <<LangAttr("html")>>},
        kids \in HugKids}
    \cup {ComponentNode("Comp", <<>>, kids) : kids \in HugKids}

ElementInputs ==
    {Input(items, Options(DefaultSortOrder, strict, TRUE, sameLine, FALSE, "", AtomsOfAll(items))) :
        items \in {<<e>> : e \in HugElements}
                  \cup {<<TextNode(<<"a">>), e>> : e \in HugElements}
                  \cup {<<ElementNode(nm, <<>>, <<e>>)>> : nm \in {"b", "div"}, e \in HugElements},
        strict \in BOOLEAN, sameLine \in BOOLEAN}

\* Plain attributes in each form of value, under every combination of
\* strict mode and allowed shorthand.
AttributeValues ==
    {<<AttributeShorthandNode(Expr("Identifier", "foo"))>>,
     <<MustacheTagNode(Expr("Identifier", "foo"))>>,
     <<MustacheTagNode(Expr("Identifier", "bar"))>>,
     <<MustacheTagNode(Expr("CallExpression", "foo"))>>,
     <<TextNode(<<"foo">>)>>,
     <<TextNode(<<"a">>), MustacheTagNode(Expr("Identifier", "foo"))>>}

Attributes ==
    {AttrNode("Attribute", "foo", value, FALSE, NoExpr) : value \in AttributeValues}
    \cup {AttrNode("Attribute", "foo", <<>>, TRUE, NoExpr)}

AttributeLists == {<<a>> : a \in Attributes} \cup {<<a, b>> : a \in Attributes, b \in Attributes}

AttributeInputs ==
    {Input(<<e>>,
           Options(order, strict, shorthand, FALSE, FALSE, "", AtomsOfAll(<<e>>))) :
        e \in {ElementNode("b", attrs, <<>>) : attrs \in AttributeLists}
              \cup {OptionsNode(attrs) : attrs \in AttributeLists},
        order \in {"none", DefaultSortOrder},
        strict \in BOOLEAN, shorthand \in BOOLEAN}

\* Texts of up to MaxText characters (a letter, a blank, a newline): alone,
\* inside an inline, a block and a preformatted element, and between
\* interpolations, inline and block elements.
MaxText == 5

Texts == {TextNode(t) : t \in SeqsUpTo({"a", " ", "\n"}, MaxText) \ {<<>>}}

TextItems ==
    LET x == MustacheTagNode(Expr("Identifier", "x"))
        b == ElementNode("b", <<>>, <<>>)
        div == ElementNode("div", <<>>, <<>>)
    IN  UNION {{<<t>>, <<x, t, x>>, <<b, t, b>>, <<div, t, div>>, <<x, t, div>>,
                <<ElementNode("pre", <<>>, <<t>>)>>,
                <<ElementNode("b", <<>>, <<x, t, x>>)>>} : t \in Texts}

TextInputs ==
    {Input(items, Options(DefaultSortOrder, FALSE, TRUE, FALSE, FALSE, "", AtomsOfAll(items))) :
        items \in TextItems}

\* If, each and await blocks: chains of else-if branches, an if block alone
\* or with whitespace in an else branch, below an each block's else, and
\* await blocks with every combination of empty, whitespace-only and filled
\* pending, then and catch branches.
IfChains ==
    LET c(nm) == Expr("Identifier", nm)
        Bodies == {<<>>, <<TextNode(<<"a">>)>>, <<TextNode(<<"\n", "a", "\n">>)>>}
        Leaf(nm) == {IfBlockNode(c(nm), b, e) :
                        b \in Bodies, e \in {<<>>, <<ElseBlockNode(<<TextNode(<<"b">>)>>)>>}}
        Chain2 == {IfBlockNode(c("y"), b, <<ElseBlockNode(<<i>>)>>) :
                      b \in Bodies, i \in Leaf("z")}
        Chain3 == {IfBlockNode(c("x"), <<TextNode(<<"a">>)>>, <<ElseBlockNode(<<i>>)>>) :
                      i \in Chain2}
        Spaced == {IfBlockNode(c("x"), <<>>,
                       <<ElseBlockNode(<<TextNode(<<"\n">>), i, TextNode(<<"\n">>)>>)>>) :
                      i \in Leaf("y")}
    IN  IF MaxNodes >= 3 THEN Leaf("x") \cup Chain2 \cup Chain3 \cup Spaced
        ELSE Leaf("x") \cup Chain2 \cup Spaced

EachBlocks ==
    {EachBlockNode(Expr("Identifier", "xs"), "x", <<TextNode(<<"a">>)>>, e) :
        e \in {<<>>} \cup {<<ElseBlockNode(<<i>>)>> : i \in IfChains}
               \cup {<<ElseBlockNode(<<TextNode(<<"b">>)>>)>>}}

AwaitBlocks ==
    LET Branches == {<<>>, <<TextNode(<<"\n">>)>>, <<TextNode(<<"a">>)>>,
                     <<TextNode(<<" ">>), MustacheTagNode(Expr("Identifier", "v"))>>}
    IN  {AwaitBlockNode(Expr("Identifier", "p"), v, e, pending, then, catch) :
            v \in {"", "v"}, e \in {"", "e"},
            pending \in Branches, then \in Branches, catch \in Branches}

BlockInputs ==
    {Input(items, Options(DefaultSortOrder, FALSE, TRUE, FALSE, FALSE, "", AtomsOfAll(items))) :
        items \in {<<b>> : b \in IfChains \cup EachBlocks \cup AwaitBlocks}
                  \cup {<<TextNode(<<"a">>), b>> : b \in IfChains \cup AwaitBlocks}}

\* Binding, class, style and let directives named foo whose expression is
\* the identifier foo, another identifier or a call (a let directive also
\* without expression; a style directive also with a text value, without
\* value, and with a modifier), alone on an element or a component or two
\* on an element, under every combination of strict mode and allowed
\* shorthand.
Directives ==
    LET exprs == {Expr("Identifier", "foo"), Expr("Identifier", "bar"),
                  Expr("CallExpression", "foo")}
    IN  {DirectiveNode(t, "foo", e) : t \in {"Binding", "Class", "Let"}, e \in exprs}
        \cup {DirectiveNode("Let", "foo", NoExpr)}
        \cup {StyleDirectiveNode("foo", m, <<v>>, FALSE) :
                 m \in {<<>>, <<"important">>},
                 v \in {MustacheTagNode(e) : e \in exprs} \cup {TextNode(<<"red">>)}}
        \cup {StyleDirectiveNode("foo", <<>>, <<>>, TRUE)}

DirectiveInputs ==
    {Input(<<e>>, Options(DefaultSortOrder, strict, shorthand, FALSE, FALSE, "",
                          AtomsOfAll(<<e>>))) :
        e \in {ElementNode("b", <<d>>, <<>>) : d \in Directives}
              \cup {ComponentNode("Comp", <<d>>, <<>>) : d \in Directives}
              \cup {ElementNode("b", <<d1, d2>>, <<>>) : d1 \in Directives, d2 \in Directives},
        strict \in BOOLEAN, shorthand \in BOOLEAN}

\* Up to three texts with, between them, what leaves the markup child list
\* before the children are printed: a script or style section, a comment
\* above a section, an options tag, a comment in front of an options tag
\* (directly, over a line break, or with an element in between); or an
\* element, which stays.
MergeItems ==
    LET texts == {<<>>, <<TextNode(<<"a">>)>>, <<TextNode(<<" ">>)>>, <<TextNode(<<"b", " ">>)>>}
        c == CommentNode("c")
        nl == TextNode(<<"\n">>)
        first == {<<ScriptNode("module")>>, <<c, nl, ScriptNode("module")>>,
                  <<OptionsNode(<<>>)>>, <<c, OptionsNode(<<>>)>>,
                  <<c, nl, OptionsNode(<<>>)>>,
                  <<c, ElementNode("b", <<>>, <<>>), OptionsNode(<<>>)>>,
                  <<ElementNode("b", <<>>, <<>>)>>}
        second == {<<>>, <<StyleNode>>, <<c, nl, ScriptNode("instance")>>}
    IN  {items \in {t1 \o s1 \o t2 \o s2 \o t3 :
                       t1 \in texts, s1 \in first, t2 \in texts, s2 \in second,
                       t3 \in texts} : WellFormed(items)}

MergeInputs ==
    {Input(items, Options(order, FALSE, TRUE, FALSE, FALSE, "", AtomsOfAll(items))) :
        items \in MergeItems, order \in {"none", DefaultSortOrder}}

\* One or two sections, each with a run of comments and line breaks above
\* it (or a range directive, or nothing), and markup before and after.
LeadItems ==
    LET c == CommentNode("c")
        d == CommentNode("d")
        start == CommentNode("prettier-ignore-start")
        nl == TextNode(<<"\n">>)
        nl2 == TextNode(<<"\n", "\n">>)
        b == ElementNode("b", <<>>, <<>>)
        runs == {<<>>, <<nl>>, <<c>>, <<c, nl>>, <<c, nl2>>, <<c, d>>, <<c, nl, d>>,
                 <<c, nl2, d, nl>>, <<nl, c>>, <<start>>, <<start, nl, c, nl>>}
        before == {<<>>, <<b>>, <<TextNode(<<"a">>)>>}
        after == {<<>>, <<b>>, <<nl, b>>}
        m == ScriptNode("module")
        i == ScriptNode("instance")
        one == {<<m>>, <<i>>, <<StyleNode>>}
        two == {<<m, StyleNode>>, <<i, m>>, <<StyleNode, i>>}
    IN  {items \in {pre \o r1 \o s \o post :
                        pre \in before, r1 \in runs, s \in one, post \in after}
                  \cup {pre \o r1 \o <<s[1]>> \o r2 \o <<s[2]>> \o post :
                           pre \in before, r1 \in runs, r2 \in runs, s \in two,
                           post \in after} : WellFormed(items)}

LeadInputs ==
    {Input(items, Options(order, FALSE, TRUE, FALSE, FALSE, "", AtomsOfAll(items))) :
        items \in LeadItems, order \in {"none", DefaultSortOrder}}

\* Markup child lists for the backward walk: a run of comments and line
\* breaks above a section, also with an empty text node of length zero at
\* the head of the run, at its end, or alone. MaxWalk caps the passes through
\* the loop; it is larger than the longest list.
MaxWalk == 8

WalkItems ==
    LET c == CommentNode("c")
        d == CommentNode("d")
        nl == TextNode(<<"\n">>)
        nl2 == TextNode(<<"\n", "\n">>)
        zero == TextNode(<<>>)
        b == ElementNode("b", <<>>, <<>>)
        runs == {<<>>, <<c>>, <<c, nl>>, <<c, d>>, <<c, nl2, d, nl>>, <<nl>>,
                 <<CommentNode("prettier-ignore-end"), nl>>,
                 <<zero>>, <<c, zero>>, <<zero, c>>, <<zero, c, nl>>}
    IN  {pre \o r \o <<s>> \o post :
            pre \in {<<>>, <<b>>}, r \in runs,
            s \in {ScriptNode("module"), ScriptNode("instance"), StyleNode},
            post \in {<<>>, <<b>>}}

\* Child lists of block elements, inline elements, interpolations and texts
\* with and without whitespace, a line break or a blank line at either end,
\* at the top level and inside a block element.
MaxChildren == 3

SeparatorLeaves ==
    {ElementNode("div", <<>>, <<>>), ElementNode("b", <<>>, <<>>),
     MustacheTagNode(Expr("Identifier", "x")),
     TextNode(<<"a">>), TextNode(<<" ">>), TextNode(<<"\n">>), TextNode(<<"\n", "\n">>),
     TextNode(<<" ", "a">>), TextNode(<<"a", " ">>), TextNode(<<"\n", "a", "\n">>),
     TextNode(<<"a", "\n", "\n">>)}

SeparatorInputs ==
    {Input(items, Options(DefaultSortOrder, FALSE, TRUE, FALSE, FALSE, "", AtomsOfAll(items))) :
        items \in {ns \in SeqsUpTo(SeparatorLeaves, MaxChildren) : WellFormed(ns)}
                  \cup {<<ElementNode("div", <<>>, ns)>> :
                           ns \in {ms \in SeqsUpTo(SeparatorLeaves, MaxChildren) :
                                      WellFormed(ms)}}}

\* ----------------------------------------------------------------- state
\* ignoreNext, ignoreRange, svelteOptionsDoc: the module-level variables.
\* phase: "idle" between invocations, "returned" / "threw" once a root-level
\* print call has ended; call: its input and the variables at its entry;
\* result: what it produced; lastOutcome, everThrew: how earlier
\* invocations ended.
VARIABLES ignoreNext, ignoreRange, svelteOptionsDoc, phase, call, result,
          lastOutcome, everThrew, walk

vars == <<ignoreNext, ignoreRange, svelteOptionsDoc, phase, call, result,
          lastOutcome, everThrew, walk>>

Globals == [ignoreNext |-> ignoreNext, ignoreRange |-> ignoreRange,
            svelteOptionsDoc |-> svelteOptionsDoc]

NoCall == [ast |-> Parse(<<>>), options |-> Options("none", FALSE, FALSE, FALSE, FALSE, "", <<>>),
           entry |-> [ignoreNext |-> FALSE, ignoreRange |-> FALSE, svelteOptionsDoc |-> <<>>]]
NoResult == [doc |-> <<>>, log |-> <<>>, assembled |-> <<>>, sections |-> <<>>,
             exit |-> [ignoreNext |-> FALSE, ignoreRange |-> FALSE, svelteOptionsDoc |-> <<>>]]

\* removeAndGetLeadingComments step by step: pc is where the call is,
\* siblings the markup child list, node the node the walk stands on, steps
\* the passes through the loop body so far, out the comments returned.
NoWalk == [pc |-> "idle", siblings |-> <<>>, node |-> NoNode, comments |-> <<>>,
           newlines |-> <<>>, steps |-> 0, out |-> <<>>]

Init ==
    /\ ignoreNext = FALSE
    /\ ignoreRange = FALSE
    /\ svelteOptionsDoc = <<>>
    /\ phase = "idle"
    /\ call = NoCall
    /\ result = NoResult
    /\ lastOutcome = "none"
    /\ everThrew = FALSE
    /\ walk = NoWalk

\* The host calls print on the root of a parsed source; the call runs to its
\* end: it returns a document or throws.
Invoke(inputs) ==
    /\ phase = "idle"
    /\ \E in \in inputs :
         LET Ended(ast, r) ==
                 /\ ignoreNext' = r.st.ignoreNext
                 /\ ignoreRange' = r.st.ignoreRange
                 /\ svelteOptionsDoc' = r.st.svelteOptionsDoc
                 /\ phase' = IF r.st.failed THEN "threw" ELSE "returned"
                 /\ call' = [ast |-> ast, options |-> in.options, entry |-> Globals]
                 /\ result' = [doc |-> r.doc, log |-> r.st.log, assembled |-> r.st.assembled,
                               sections |-> r.sections,
                               exit |-> [ignoreNext |-> r.exit.ignoreNext,
                                         ignoreRange |-> r.exit.ignoreRange,
                                         svelteOptionsDoc |-> r.exit.svelteOptionsDoc]]
                 /\ UNCHANGED <<lastOutcome, everThrew, walk>>
         IN  Ended(Parse(in.items), printRoot(Parse(in.items), in.options, Globals))

\* The host takes the result (or the error); the process is ready for the
\* next source.
Release ==
    /\ phase # "idle"
    /\ phase' = "idle"
    /\ call' = NoCall
    /\ result' = NoResult
    /\ lastOutcome' = phase
    /\ everThrew' = (everThrew \/ phase = "threw")
    /\ UNCHANGED <<ignoreNext, ignoreRange, svelteOptionsDoc, walk>>

FormatSource == Invoke(SuppressionInputs)

Next == FormatSource \/ Release

Spec == Init /\ [][Next]_vars

FormatChildren == Invoke(FlowInputs)

NextChildren == FormatChildren \/ Release

SpecChildren == Init /\ [][NextChildren]_vars

FormatElements == Invoke(ElementInputs)

NextElements == FormatElements \/ Release

SpecElements == Init /\ [][NextElements]_vars

FormatAttributes == Invoke(AttributeInputs)

NextAttributes == FormatAttributes \/ Release

SpecAttributes == Init /\ [][NextAttributes]_vars

FormatSections == Invoke(SectionInputs)

NextSections == FormatSections \/ Release

SpecSections == Init /\ [][NextSections]_vars

FormatTexts == Invoke(TextInputs)

NextTexts == FormatTexts \/ Release

SpecTexts == Init /\ [][NextTexts]_vars

FormatBlocks == Invoke(BlockInputs)

NextBlocks == FormatBlocks \/ Release

SpecBlocks == Init /\ [][NextBlocks]_vars

FormatMerged == Invoke(MergeInputs)

NextMerged == FormatMerged \/ Release

SpecMerged == Init /\ [][NextMerged]_vars

\* removeAndGetLeadingComments up to the loop: no siblings, no comments.
StartWalk ==
    /\ phase = "idle" /\ walk.pc = "idle"
    /\ \E items \in WalkItems :
          \E current \in {n \in {Parse(items).module, Parse(items).instance,
                                  Parse(items).css} : n.type # "None"} :
              walk' = IF Parse(items).html.children = <<>>
                      THEN [NoWalk EXCEPT !.pc = "returned", !.node = current]
                      ELSE [NoWalk EXCEPT !.pc = "walking", !.node = current,
                                          !.siblings = Parse(items).html.children]
    /\ UNCHANGED <<ignoreNext, ignoreRange, svelteOptionsDoc, phase, call, result,
                   lastOutcome, everThrew>>

\* siblings.find((child) => child.end === node.start)
WalkPrev ==
    LET Ends(c) == c.end = walk.node.start
    IN  FindOr(SelectSeq(walk.siblings, Ends), NoNode)

WalkContinues ==
    \/ WalkPrev.type = "Comment" /\ ~isIgnoreStartDirective(WalkPrev)
          /\ ~isIgnoreEndDirective(WalkPrev)
    \/ isEmptyTextNode(WalkPrev)

\* One pass through the body of the while loop.
WalkLoop ==
    /\ walk.pc = "walking" /\ WalkContinues
    /\ walk.steps < MaxWalk
    /\ walk' = IF WalkPrev.type = "Comment"
               THEN [walk EXCEPT !.comments = Append(@, WalkPrev),
                                 !.newlines = IF Len(walk.comments) + 1 # Len(@)
                                              THEN Append(@, NoNewline) ELSE @,
                                 !.node = WalkPrev, !.steps = @ + 1]
               ELSE [walk EXCEPT !.newlines = Append(@, WalkPrev),
                                 !.node = WalkPrev, !.steps = @ + 1]
    /\ UNCHANGED <<ignoreNext, ignoreRange, svelteOptionsDoc, phase, call, result,
                   lastOutcome, everThrew>>

\* The loop is left (no previous sibling, or one that is neither a comment
\* nor whitespace): the comments and texts are spliced out and the comments
\* returned.
WalkReturn ==
    /\ walk.pc = "walking" /\ ~WalkContinues
    /\ LET newlines == SubSeq(walk.newlines, 1, Len(walk.comments))
       IN  walk' = [walk EXCEPT
                       !.pc = "returned",
                       !.siblings = spliceOutAll(spliceOutAll(@, walk.comments), newlines),
                       !.out = Reverse([i \in 1..Len(walk.comments) |->
                                  [comment |-> walk.comments[i],
                                   emptyLineAfter |->
                                       CountNewlines(getUnencodedText(newlines[i])) >= 2]])]
    /\ UNCHANGED <<ignoreNext, ignoreRange, svelteOptionsDoc, phase, call, result,
                   lastOutcome, everThrew>>

WalkRelease ==
    /\ walk.pc = "returned"
    /\ walk' = NoWalk
    /\ UNCHANGED <<ignoreNext, ignoreRange, svelteOptionsDoc, phase, call, result,
                   lastOutcome, everThrew>>

NextWalk == StartWalk \/ WalkLoop \/ WalkReturn \/ WalkRelease

SpecWalk == Init /\ [][NextWalk]_vars

FormatSeparated == Invoke(SeparatorInputs)

NextSeparated == FormatSeparated \/ Release

SpecSeparated == Init /\ [][NextSeparated]_vars

FormatLeading == Invoke(LeadInputs)

NextLeading == FormatLeading \/ Release

SpecLeading == Init /\ [][NextLeading]_vars

FormatDirectives == Invoke(DirectiveInputs)

NextDirectives == FormatDirectives \/ Release

SpecDirectives == Init /\ [][NextDirectives]_vars

\* ------------------------------------------------------------- properties
CleanEntry ==
    /\ call.entry.ignoreNext = FALSE
    /\ call.entry.ignoreRange = FALSE
    /\ call.entry.svelteOptionsDoc = <<>>

\* C1: when every earlier root-level invocation returned normally, an
\* invocation starts with ignoreNext false, ignoreRange false and no pending
\* options document, whatever the earlier trees and sort orders were.
C1_NoLeakAfterReturn ==
    (phase # "idle" /\ ~everThrew) => CleanEntry

\* C2: the invocation that follows one that threw starts with both flags
\* false and the pending options slot empty, and its result is the one it
\* would produce had the failed invocation never run.
C2_NoLeakAfterThrow ==
    (phase # "idle" /\ lastOutcome = "threw") =>
        /\ CleanEntry
        /\ result.doc = printRoot(call.ast, call.options,
                            [ignoreNext |-> FALSE, ignoreRange |-> FALSE,
                             svelteOptionsDoc |-> <<>>]).doc

\* The pieces of a verbatim document joined with a newline at each literal
\* line break.
Rejoin(d) == [i \in 1..Len(d) |-> IF d[i] = "literalline" THEN "\n" ELSE d[i]]

TopLevel == call.ast.html.children

DispatchedAs(node, isVerbatim) ==
    \E k \in 1..Len(result.log) :
        result.log[k].id = node.id /\ result.log[k].verbatim = isVerbatim

\* The i-th top-level node lies between a range-start directive that was
\* dispatched as a directive and the range-end directive that follows it.
InIgnoreRange(i) ==
    /\ \E j \in 1..(i - 1) :
          /\ isIgnoreStartDirective(TopLevel[j])
          /\ DispatchedAs(TopLevel[j], FALSE)
          /\ \A k \in (j + 1)..i : ~isIgnoreEndDirective(TopLevel[k])
    /\ \E k \in (i + 1)..Len(TopLevel) : isIgnoreEndDirective(TopLevel[k])

\* C3: every node between a top-level range-start and range-end directive
\* (whitespace-only text aside) is emitted verbatim: the pieces of its
\* document, joined with newlines, are the source text from its start to its
\* end offset.  This includes an options tag and the texts around it.
C3_RangeVerbatim ==
    (phase = "returned" /\ CleanEntry) =>
        \A i \in 1..Len(TopLevel) :
            (InIgnoreRange(i) /\ ~isEmptyTextNode(TopLevel[i])) =>
                \E k \in 1..Len(result.log) :
                    /\ result.log[k].id = TopLevel[i].id
                    /\ result.log[k].verbatim
                    /\ Rejoin(result.log[k].doc)
                         = Slice(call.options.originalText, TopLevel[i].start, TopLevel[i].end)

IsIgnoreNextEvent(e) == isIgnoreDirective(e.node) /\ ~e.verbatim

\* C4: a node is emitted verbatim on account of ignoreNext only when it is
\* the next sibling with content of an ignore-next directive comment: the
\* directive was dispatched in the same child list, with nothing but
\* whitespace text of that list dispatched in between.
C4_IgnoreNextSibling ==
    (phase # "idle" /\ CleanEntry) =>
        \A i \in 1..Len(result.log) :
            (result.log[i].verbatim /\ result.log[i].nextBefore /\ ~result.log[i].rangeBefore) =>
                \E j \in 1..(i - 1) :
                    /\ IsIgnoreNextEvent(result.log[j])
                    /\ result.log[j].parent = result.log[i].parent
                    /\ \A k \in (j + 1)..(i - 1) :
                          result.log[k].parent = result.log[i].parent /\ result.log[k].empty

\* ignoreRange as the dispatch after the i-th one finds it (as the invocation
\* leaves the tree walk, for the last one).
RangeAfter(i) ==
    IF i < Len(result.log) THEN result.log[i + 1].rangeBefore ELSE result.exit.ignoreRange

IsRangeDirective(node) == isIgnoreStartDirective(node) \/ isIgnoreEndDirective(node)

\* C5: the dispatch of a range-start or range-end comment that is not
\* top-level markup leaves ignoreRange as it was; ignoreRange changes between
\* one dispatch and the next only by a top-level range-start comment (to
\* true) or a top-level range-end comment (to false) dispatched as a comment.
C5_RangeTogglesAtTopLevelOnly ==
    phase # "idle" =>
        \A i \in 1..Len(result.log) :
            LET e == result.log[i]
            IN  /\ (IsRangeDirective(e.node) /\ ~e.top) => RangeAfter(i) = e.rangeBefore
                /\ RangeAfter(i) # e.rangeBefore =>
                      /\ ~e.verbatim
                      /\ e.top
                      /\ RangeAfter(i) = isIgnoreStartDirective(e.node)
                      /\ IsRangeDirective(e.node)

\* A nested range-start comment was dispatched as a comment and a top-level
\* one switched the range on, in one invocation.
C5_Witness ==
    /\ phase # "idle"
    /\ \E i, j \in 1..Len(result.log) :
          /\ isIgnoreStartDirective(result.log[i].node)
          /\ ~result.log[i].top
          /\ ~result.log[i].verbatim
          /\ ~result.log[i].rangeBefore
          /\ isIgnoreStartDirective(result.log[j].node)
          /\ result.log[j].top
          /\ ~result.log[j].rangeBefore
          /\ RangeAfter(j)

\* The documents of the sections that are present, in the configured order:
\* the scripts and the style as the embedded printer gives them, the markup
\* as the root Fragment was printed, the options tag as it was put aside.
SectionDocs(part) ==
    LET ast == assignCommentsToNodes(call.ast)
        Present(n) == IF n.type # "None" THEN <<printSection(n)>> ELSE <<>>
    IN  CASE part = "scripts" -> Present(ast.module) \o Present(ast.instance)
          [] part = "styles" -> Present(ast.css)
          [] part = "markup" ->
                IF result.log # <<>> /\ result.log[1].doc # <<>>
                THEN <<result.log[1].doc>> ELSE <<>>
          [] part = "options" ->
                IF result.exit.svelteOptionsDoc # <<>>
                THEN <<result.exit.svelteOptionsDoc>> ELSE <<>>

ExpectedSections ==
    LET order == parseSortOrder(call.options.svelteSortOrder)
        docs == Flatten([i \in 1..Len(order) |-> SectionDocs(order[i])])
    IN  IF call.options.parentParser = "markdown" /\ docs # <<>>
        THEN [docs EXCEPT ![Len(docs)] = trimRightInside(@)]
        ELSE docs

PragmaInserted == call.options.insertPragma /\ ~hasPragma(call.options.originalText)

\* C6: with a sort order other than 'none' the result is the documents of
\* the present sections in the configured order with exactly one hard line
\* between two consecutive ones (after the pragma line when one is
\* inserted), under every combination of pragma insertion and parent parser.
C6_SectionsJoinedByHardline ==
    (phase = "returned" /\ CleanEntry /\ call.options.svelteSortOrder # "none") =>
        /\ result.sections = ExpectedSections
        /\ result.doc =
              (IF PragmaInserted THEN <<"<!-- @format -->">> \o hardline ELSE <<>>)
              \o groupConcat(<<concat(join(hardline, ExpectedSections))>>)

Occurrences(d, tok) == Cardinality({i \in 1..Len(d) : d[i] = tok})

\* C7: with sort order 'none' every section present in the tree is put into
\* the markup child list once and is printed once.
C7_NoneKeepsEverySection ==
    (phase = "returned" /\ CleanEntry /\ call.options.svelteSortOrder = "none") =>
        \A s \in PresentParts(call.ast) :
            /\ Occurrences(result.doc, AtomsOf(s)[1]) = 1
            /\ \E k \in 1..Len(result.assembled) :
                  /\ result.assembled[k].parent = call.ast.html.id
                  /\ Cardinality({i \in 1..Len(result.assembled[k].given) :
                                     result.assembled[k].given[i].id = s.id}) = 1

HasBlockChild(nodes) ==
    \E i \in 1..Len(nodes) : nodes[i].type = "Element" /\ nodes[i].name \in BlockTags

\* C8: the document of every child list put together outside preformatted
\* content is the children's documents followed by a forced-break marker if
\* the list, after options removal and text merging, has more than one node
\* and a block-like node among them, and by nothing otherwise.
C8_BreakParentIffBlockAmongSeveral ==
    phase # "idle" =>
        \A k \in 1..Len(result.assembled) :
            LET e == result.assembled[k]
            IN  e.doc = concat(e.childDocs)
                        \o (IF Len(e.childNodes) > 1 /\ HasBlockChild(e.childNodes)
                            THEN breakParent ELSE <<>>)

\* A child list that lost its options tag, kept two nodes, one of them
\* block-like, and got the marker.
C8_Witness ==
    /\ phase = "returned"
    /\ \E k \in 1..Len(result.assembled) :
          LET e == result.assembled[k]
          IN  /\ Len(e.given) > Len(e.childNodes)
              /\ Len(e.childNodes) = 2
              /\ HasBlockChild(e.childNodes)
              /\ Last(e.doc) = "breakParent"

NoLineBetween(d, from, to) == \A k \in (from + 1)..(to - 1) : ~isLine(d[k])

\* In the document d of an element with the given name, the interpolation
\* (printed, or copied from the source) follows the `>` of the opening tag and
\* is followed by the `</` of the closing tag with no line in between.
HugsInterpolation(d, name, interpolation) ==
    \E i, j \in 1..Len(d) :
        /\ \/ d[i] = "{" /\ d[j] = "}" /\ i < j
           \/ d[i] = AtomsOf(interpolation)[1] /\ j = i
        /\ \E g \in 1..(i - 1) : d[g] = ">" /\ NoLineBetween(d, g, i)
        /\ \E c \in (j + 1)..Len(d) :
              /\ d[c] \in {"</" \o name, "</" \o name \o ">"}
              /\ NoLineBetween(d, j, c)

IsLoneInterpolationElement(e) ==
    /\ e.type \in ElementLike
    /\ ~e.verbatim
    /\ isLoneMustacheTag(e.node.children)

HasForeignLanguage(node) == node.name = "template" /\ ~isNodeSupportedLanguage(node)

\* C9 as stated: the document of every element-like node whose only child
\* is one interpolation has no line between the `>` of the opening tag and
\* the interpolation, nor between the interpolation and the closing `</`.
C9_HugsLoneInterpolation ==
    phase = "returned" =>
        \A k \in 1..Len(result.log) :
            IsLoneInterpolationElement(result.log[k]) =>
                HugsInterpolation(result.log[k].doc, result.log[k].name,
                                  result.log[k].node.children[1])

\* C9, amended: the same for every such node whose content language is not
\* a foreign one (a template tag in an unsupported language has its content
\* copied from the source between two hard lines).
C9_HugsLoneInterpolationUnlessForeign ==
    phase = "returned" =>
        \A k \in 1..Len(result.log) :
            (IsLoneInterpolationElement(result.log[k]) /\ ~HasForeignLanguage(result.log[k].node)) =>
                HugsInterpolation(result.log[k].doc, result.log[k].name,
                                  result.log[k].node.children[1])

\* A block element holding one interpolation was printed inside another
\* element, in strict mode with the bracket on the same line.
C9_Witness ==
    /\ phase = "returned"
    /\ call.options.svelteStrictMode
    /\ call.options.bracketSameLine
    /\ \E k \in 1..Len(result.log) :
          /\ IsLoneInterpolationElement(result.log[k])
          /\ result.log[k].name = "div"
          /\ result.log[k].parent # call.ast.html.id
          /\ result.log[k].doc # <<>>

\* C10: an Attribute that is or can be converted to shorthand is printed as
\* name="{name}" in strict mode, as {name} when strict mode is off and
\* shorthand is allowed, and as name={name} when both are off.
C10_ShorthandThreeWay ==
    phase # "idle" =>
        \A k \in 1..Len(result.log) :
            LET e == result.log[k]
                value == e.node.value
                convertible ==
                    \/ Len(value) = 1 /\ value[1].type = "AttributeShorthand"
                    \/ /\ Len(value) = 1 /\ value[1].type = "MustacheTag"
                       /\ value[1].expression = Expr("Identifier", e.name)
            IN  (e.type = "Attribute" /\ ~e.verbatim /\ ~e.node.valueIsTrue /\ convertible) =>
                    e.doc = IF call.options.svelteStrictMode
                            THEN <<e.name, "=\"{", e.name, "}\"">>
                            ELSE IF call.options.svelteAllowShorthand
                            THEN <<"{", e.name, "}">>
                            ELSE <<e.name, "={", e.name, "}">>

\* An attribute written foo={foo} was printed with strict mode off and
\* shorthand allowed, next to one that cannot be converted.
C10_Witness ==
    /\ phase = "returned"
    /\ ~call.options.svelteStrictMode
    /\ call.options.svelteAllowShorthand
    /\ \E k, m \in 1..Len(result.log) :
          /\ result.log[k].type = "Attribute"
          /\ result.log[k].node.value = PlaceValue(<<MustacheTagNode(Expr("Identifier", "foo"))>>,
                                                   result.log[k].start)
          /\ result.log[k].doc = <<"{", "foo", "}">>
          /\ result.log[m].type = "Attribute"
          /\ result.log[m].doc = <<"foo", "=", "{", "bar", "}">>

\* ------------------------------------------------------------------ texts
\* The parts of a fill (or the document itself when it is no fill), and the
\* run of line tokens it starts and ends with.
PartsOf(d) ==
    IF Len(d) >= 2 /\ Head(d) = "fill(" /\ Last(d) = ")" THEN SubSeq(d, 2, Len(d) - 1) ELSE d

LeadingLines(d) == SubSeq(d, 1, Len(d) - Len(trimLeftDoc(d, LineTokens)))
TrailingLines(d) == SubSeq(d, Len(trimRightDoc(d, LineTokens)) + 1, Len(d))

\* What an edge made of the whitespace ws has to render as.
EdgeLines(ws) ==
    IF ws = <<>> THEN <<>>
    ELSE IF CountNewlines(ws) = 0 THEN line
    ELSE IF CountNewlines(ws) = 1 THEN hardline
    ELSE hardline \o hardline

EdgesRendered(e) ==
    /\ LeadingLines(PartsOf(e.doc)) = EdgeLines(LeadingWs(e.node.raw))
    /\ TrailingLines(PartsOf(e.doc)) = EdgeLines(TrailingWs(e.node.raw))

IsTextEvent(e) == e.type = "Text" /\ ~e.empty

C12_WhitespaceOnlyText ==
    phase = "returned" =>
        \A i \in 1..Len(result.log) :
            LET e == result.log[i]
                text == e.node.raw
            IN  e.type = "Text" /\ e.empty /\ ~e.pre =>
                    /\ ~e.verbatim
                    /\ e.doc = CASE text = <<>> -> <<>>
                                  [] text # <<>> /\ CountNewlines(text) = 0 -> <<"line">>
                                  [] CountNewlines(text) = 1 -> <<"hardline">>
                                  [] OTHER -> <<"hardline", "hardline">>

\* A whitespace-only text with four newlines was printed as two hard lines.
C12_Witness ==
    /\ phase = "returned"
    /\ \E i \in 1..Len(result.log) :
           LET e == result.log[i]
           IN  /\ e.type = "Text" /\ e.empty /\ ~e.pre
               /\ CountNewlines(e.node.raw) = 4
               /\ e.doc = <<"hardline", "hardline">>

\* ----------------------------------------------------------------- blocks
IsPrefix(p, d) == Len(p) <= Len(d) /\ SubSeq(d, 1, Len(p)) = p
IsSuffix(p, d) == Len(p) <= Len(d) /\ SubSeq(d, Len(d) - Len(p) + 1, Len(d)) = p
IsInfix(p, d) == \E k \in 0..(Len(d) - Len(p)) : SubSeq(d, k + 1, k + Len(p)) = p

HasNoIf(ns) == \A i \in 1..Len(ns) : ns[i].type # "IfBlock"
IsElseIf(e) == Len(e.children) = 1 /\ e.children[1].type = "IfBlock"

\* The number of else-if branches chained to an if block, and whether the
\* block holds no other if block than those of the chain.
RECURSIVE ElseIfCount(_)
ElseIfCount(n) ==
    IF n.else # <<>> /\ IsElseIf(n.else[1]) THEN 1 + ElseIfCount(n.else[1].children[1])
    ELSE 0

RECURSIVE IsPureChain(_)
IsPureChain(n) ==
    /\ HasNoIf(n.children)
    /\ \/ n.else = <<>>
       \/ IsElseIf(n.else[1]) /\ IsPureChain(n.else[1].children[1])
       \/ HasNoIf(n.else[1].children)

DocOf(id) ==
    LET Is(e) == e.id = id
    IN  SelectSeq(result.log, Is)[1].doc

\* C13: an ElseBlock whose only child is an IfBlock and whose parent is not
\* an EachBlock is rendered as `{:else if cond}` followed by the inner
\* block's body and its else chain, so that an if block with n chained
\* else-if branches has one `{#if` and one `{/if}`; below an EachBlock it
\* is rendered as `{:else}` with the IfBlock as a separate `{#if}...{/if}`.
C13_ElseIfChaining ==
    phase = "returned" =>
        \A i \in 1..Len(result.log) :
            LET e == result.log[i]
                inner == e.node.children[1]
            IN  /\ e.type = "ElseBlock" /\ IsElseIf(e.node) /\ e.parentType # "EachBlock" =>
                      /\ IsPrefix(<<"{:else if ", inner.expression.name, "}">>, e.doc)
                      /\ \A k \in 1..Len(result.assembled) :
                             result.assembled[k].parent = inner.id =>
                                 IsInfix(result.assembled[k].doc, e.doc)
                      /\ inner.else # <<>> => IsSuffix(DocOf(inner.else[1].id), e.doc)
                      /\ IsPureChain(inner) =>
                             Occurrences(e.doc, "{#if ") + Occurrences(e.doc, "{/if}") = 0
                /\ e.type = "ElseBlock" /\ IsElseIf(e.node) /\ e.parentType = "EachBlock" =>
                      /\ IsPrefix(<<"{:else}">>, e.doc)
                      /\ IsInfix(DocOf(inner.id), e.doc)
                      /\ IsPrefix(<<"group(", "{#if ", inner.expression.name, "}">>,
                                  DocOf(inner.id))
                /\ e.type = "IfBlock" /\ IsPureChain(e.node) =>
                      /\ Occurrences(e.doc, "{#if ") = 1
                      /\ Occurrences(e.doc, "{/if}") = 1
                      /\ Occurrences(e.doc, "{:else if ") = ElseIfCount(e.node)

\* An if block with two chained else-if branches and a last else branch
\* was printed.
C13_Witness ==
    /\ phase = "returned"
    /\ \E i \in 1..Len(result.log) :
           LET e == result.log[i]
           IN  /\ e.type = "IfBlock" /\ ElseIfCount(e.node) = 2
               /\ Occurrences(e.doc, "{:else if ") = 2
               /\ Occurrences(e.doc, "{:else}") = 1
               /\ Occurrences(e.doc, "{/if}") = 1

\* What an await block's branches hold, and how often a branch was printed.
BranchHasContent(b) == \E i \in 1..Len(b.children) : ~isEmptyTextNode(b.children[i])

Dispatches(id) == Cardinality({k \in 1..Len(result.log) : result.log[k].id = id})

\* C14: for each combination of pending, then and catch having content, the
\* pending body is printed iff pending has content, the then and the catch
\* body once iff they have content, the short `{#await e then v}` form is
\* used exactly when pending is empty and then has content, the short
\* `{#await e catch err}` form exactly when pending and then are empty and
\* catch has content, and `{/await}` is emitted once.
C14_AwaitShape ==
    phase = "returned" =>
        \A i \in 1..Len(result.log) :
            LET e == result.log[i]
                n == e.node
                p == BranchHasContent(n.pending[1])
                t == BranchHasContent(n.then[1])
                c == BranchHasContent(n.catch[1])
                Rendered(b) == Dispatches(b.id) = 1 /\ IsInfix(DocOf(b.id), e.doc)
                Absent(b) == Dispatches(b.id) = 0
                opening == SubSeq(e.doc, 1, 5)
            IN  e.type = "AwaitBlock" =>
                    /\ IF p THEN Rendered(n.pending[1]) ELSE Absent(n.pending[1])
                    /\ IF t THEN Rendered(n.then[1]) ELSE Absent(n.then[1])
                    /\ IF c THEN Rendered(n.catch[1]) ELSE Absent(n.catch[1])
                    /\ opening[5] = " then" <=> ~p /\ t
                    /\ opening[5] = " catch" <=> ~p /\ ~t /\ c
                    /\ Occurrences(e.doc, " then") + Occurrences(e.doc, "{:then") = IF t THEN 1 ELSE 0
                    /\ Occurrences(e.doc, " catch") + Occurrences(e.doc, "{:catch") = IF c THEN 1 ELSE 0
                    /\ Occurrences(e.doc, "{/await}") = 1
                    /\ Last(e.doc) = ")" /\ e.doc[Len(e.doc) - 1] = "{/await}"

\* An await block with an empty pending branch and content in both other
\* branches was printed in the short then form, followed by a catch branch.
C14_Witness ==
    /\ phase = "returned"
    /\ \E i \in 1..Len(result.log) :
           LET e == result.log[i]
           IN  /\ e.type = "AwaitBlock"
               /\ ~BranchHasContent(e.node.pending[1])
               /\ e.node.pending[1].children # <<>>
               /\ BranchHasContent(e.node.then[1])
               /\ BranchHasContent(e.node.catch[1])
               /\ Occurrences(e.doc, " then") = 1
               /\ Occurrences(e.doc, "{:catch") = 1

\* What printChildren may put between the documents of the children.
Separators == {"line", "softline", "group(", ")"}

AllIn(d, toks) == \A i \in 1..Len(d) : d[i] \in toks

\* d is the documents ds, in this order and each once, with nothing but
\* separators around and between them; `first` tells that no child document
\* was placed yet: before the first one only a group may open.
RECURSIVE Embeds(_, _, _)
Embeds(d, ds, first) ==
    IF ds = <<>> THEN AllIn(d, {")"})
    ELSE \E k \in 0..(Len(d) - Len(ds[1])) :
             /\ AllIn(SubSeq(d, 1, k), IF first THEN {"group("} ELSE Separators)
             /\ SubSeq(d, k + 1, k + Len(ds[1])) = ds[1]
             /\ Embeds(SubSeq(d, k + Len(ds[1]) + 1, Len(d)), Tail(ds), FALSE)

\* The document the dispatch of a child returned.
ChildDoc(c) ==
    LET Is(e) == e.id = c.id /\ e.type = c.type
    IN  IF IsSection(c) THEN printSection(c) ELSE SelectSeq(result.log, Is)[1].doc

IndexOfId(ns, id) == CHOOSE i \in 1..Len(ns) : ns[i].id = id

\* A child handed to prepareChildren whose content reaches no remaining
\* child: it is not in the remaining list, and it is not a Text whose
\* content the Text before it took over.
IsRemoved(g, childNodes) ==
    /\ \A j \in 1..Len(childNodes) : childNodes[j].id # g.id
    /\ ~(/\ g.type = "Text"
          /\ \E j \in 1..Len(childNodes) :
                 /\ childNodes[j].type = "Text"
                 /\ childNodes[j].start < g.start
                 /\ IsSuffix(g.raw, childNodes[j].raw))

IsCommentOfOptions(given, i) ==
    /\ given[i].type = "Comment"
    /\ \/ i + 1 <= Len(given) /\ given[i + 1].type = "Options"
       \/ /\ i + 2 <= Len(given) /\ isEmptyTextNode(given[i + 1])
          /\ given[i + 2].type = "Options"

CoveredBySiblingDirective(i) ==
    \E j \in 1..(i - 1) :
        /\ IsIgnoreNextEvent(result.log[j])
        /\ result.log[j].parent = result.log[i].parent
        /\ \A k \in (j + 1)..(i - 1) :
              result.log[k].parent = result.log[i].parent /\ result.log[k].empty

\* C17: every top-level range-start comment handed to print leaves
\* ignoreRange set and every top-level range-end comment handed to print
\* leaves it clear, whatever ignoreNext is when the comment is reached;
\* stated for an invocation entered with clear flags and for the comments
\* that no ignore-next directive among their own siblings covers, such as
\* the comment after an element whose last child is an ignore-next
\* directive.
C17_RangeDirectiveAlwaysToggles ==
    (phase # "idle" /\ CleanEntry) =>
        \A i \in 1..Len(result.log) :
            LET e == result.log[i]
            IN  (e.type = "Comment" /\ e.top /\ ~CoveredBySiblingDirective(i)) =>
                    /\ isIgnoreStartDirective(e.node) => RangeAfter(i)
                    /\ isIgnoreEndDirective(e.node) => ~RangeAfter(i)

\* ignoreNext as the dispatch after the i-th one finds it (as the
\* invocation leaves the tree walk, for the last one).
NextAfter(i) ==
    IF i < Len(result.log) THEN result.log[i + 1].nextBefore ELSE result.exit.ignoreNext

\* What the Text rule makes of a whitespace-only text.
WhitespaceDoc(text) ==
    CASE text = <<>> -> <<>>
      [] text # <<>> /\ CountNewlines(text) = 0 -> <<"line">>
      [] CountNewlines(text) = 1 -> <<"hardline">>
      [] OTHER -> <<"hardline", "hardline">>

\* C18: a whitespace-only Text node handed to print is never emitted
\* verbatim: also while ignoreNext or ignoreRange is set it is printed by
\* the Text rule, and ignoreNext and ignoreRange are after it what they
\* were before it.
C18_WhitespaceNeverVerbatim ==
    phase # "idle" =>
        \A i \in 1..Len(result.log) :
            LET e == result.log[i]
            IN  e.type = "Text" /\ e.empty =>
                    /\ ~e.verbatim
                    /\ e.doc = WhitespaceDoc(e.node.raw)
                    /\ NextAfter(i) = e.nextBefore
                    /\ RangeAfter(i) = e.rangeBefore

\* A whitespace-only text was printed as a hard line while an ignore-next
\* was pending, and the node after it was emitted verbatim.
C18_Witness ==
    /\ phase # "idle"
    /\ \E i \in 1..(Len(result.log) - 1) :
           LET e == result.log[i]
           IN  /\ e.type = "Text" /\ e.empty /\ e.nextBefore /\ ~e.rangeBefore
               /\ e.doc = <<"hardline">>
               /\ result.log[i + 1].nextBefore /\ result.log[i + 1].verbatim

\* The text of a document without line breaks in it.
RECURSIVE TextOf(_)
TextOf(d) == IF d = <<>> THEN "" ELSE Head(d) \o TextOf(Tail(d))

\* The expression of the directive is a bare identifier equal to its name.
NamesItself(node) ==
    IF node.type = "StyleDirective"
    THEN /\ Len(node.value) = 1 /\ node.value[1].type = "MustacheTag"
         /\ node.value[1].expression = Expr("Identifier", node.name)
    ELSE node.expression = Expr("Identifier", node.name)

\* C19: a Binding, Class, StyleDirective or Let directive whose expression
\* is a bare identifier equal to its name is printed without the
\* `=expression` part when strict mode is off and shorthand is allowed, as
\* name="{name}" when strict mode is on, and as name={name} when both are
\* off.
C19_DirectiveShorthandByOptions ==
    phase = "returned" =>
        \A i \in 1..Len(result.log) :
            LET e == result.log[i]
                head == DirectivePrefix[e.type] \o e.node.name
                strict == call.options.svelteStrictMode
                shorthand == call.options.svelteAllowShorthand
            IN  (/\ e.type \in DOMAIN DirectivePrefix
                 /\ NamesItself(e.node)
                 /\ e.type = "StyleDirective" => e.node.modifiers = <<>>) =>
                    TextOf(e.doc) =
                        CASE strict -> head \o "=\"{" \o e.node.name \o "}\""
                          [] ~strict /\ shorthand -> head
                          [] OTHER -> head \o "={" \o e.node.name \o "}"

\* The options tags in a document, formatted or verbatim.
OptionTags(d) == Occurrences(d, "svelte:options") + Occurrences(d, "<svelte:options")

SourceHasOptions ==
    \E i \in 1..Len(call.ast.html.children) : call.ast.html.children[i].type = "Options"

\* C20: with a sort order other than 'none' an options node is taken out of
\* the child list before the children are printed (it is in no list of
\* remaining children and is never handed to print), and the output of a
\* source with an options node holds its document exactly once, as the
\* options section at the place the sort order gives it, not inside the
\* markup.
C20_OptionsRelocatedOnce ==
    (phase = "returned" /\ call.options.svelteSortOrder # "none") =>
        /\ \A k \in 1..Len(result.assembled) :
               \A j \in 1..Len(result.assembled[k].childNodes) :
                   result.assembled[k].childNodes[j].type # "Options"
        /\ \A i \in 1..Len(result.log) : result.log[i].type # "Options"
        /\ SourceHasOptions =>
               /\ OptionTags(result.doc) = 1
               /\ result.sections = ExpectedSections
               /\ OptionTags(result.exit.svelteOptionsDoc) = 1
               /\ result.log # <<>> => OptionTags(result.log[1].doc) = 0

\* The raw content of the Text nodes of a child list, one after another.
RECURSIVE RawOfTexts(_)
RawOfTexts(ns) ==
    IF ns = <<>> THEN <<>>
    ELSE (IF Head(ns).type = "Text" THEN Head(ns).raw ELSE <<>>) \o RawOfTexts(Tail(ns))

NotWhitespace(ch) == ch \notin Whitespace

\* C21: in the child list prepareChildren returns no two adjacent children
\* are both Text nodes, and the raw content of its Text children, taken
\* together, is that of the Text children that were kept (compared here
\* without whitespace, as whitespace-only texts may be among the removed
\* children), for any number of removed nodes.
C21_AdjacentTextsMerged ==
    phase = "returned" =>
        \A k \in 1..Len(result.assembled) :
            LET e == result.assembled[k]
            IN  /\ \A i \in 1..(Len(e.childNodes) - 1) :
                       ~(e.childNodes[i].type = "Text" /\ e.childNodes[i + 1].type = "Text")
                /\ SelectSeq(RawOfTexts(e.childNodes), NotWhitespace)
                       = SelectSeq(RawOfTexts(e.given), NotWhitespace)

IdsOf(ns) == {ns[i].id : i \in 1..Len(ns)}

\* A comment that is not a range directive, with the options node right
\* after it or after one whitespace-only text.
LeadsOptions(given, i) == ~IsRangeDirective(given[i]) /\ IsCommentOfOptions(given, i)

\* C22: with a sort order other than 'none' a comment (no range directive)
\* followed by the options node, directly or over one whitespace-only text,
\* is not among the remaining children, nor is that text, and the options
\* document starts with the comment and a hard line; any other comment that
\* is no range directive remains a child, and without such a comment the
\* options document starts with the tag.
C22_CommentTravelsWithOptions ==
    (phase = "returned" /\ call.options.svelteSortOrder # "none") =>
        \A k \in 1..Len(result.assembled) :
            LET e == result.assembled[k]
                g == e.given
                optionsDoc == result.exit.svelteOptionsDoc
            IN  /\ \A i \in 1..Len(g) :
                       (g[i].type = "Comment" /\ ~IsRangeDirective(g[i])) =>
                           IF LeadsOptions(g, i)
                           THEN /\ g[i].id \notin IdsOf(e.childNodes)
                                /\ isEmptyTextNode(g[i + 1]) =>
                                       g[i + 1].id \notin IdsOf(e.childNodes)
                                /\ IsPrefix(<<"group(">> \o printComment(g[i]) \o hardline,
                                            optionsDoc)
                           ELSE g[i].id \in IdsOf(e.childNodes)
                /\ (/\ \E i \in 1..Len(g) : g[i].type = "Options"
                    /\ \A i \in 1..Len(g) : ~LeadsOptions(g, i)) =>
                       IsPrefix(<<"group(", "group(", "<", "svelte:options">>, optionsDoc)

\* Children were prepared with a comment, a whitespace-only text and the
\* options node in a row, and the comment went into the options document.
C22_Witness ==
    /\ phase = "returned" /\ call.options.svelteSortOrder # "none"
    /\ \E k \in 1..Len(result.assembled) :
           LET g == result.assembled[k].given
           IN  \E i \in 1..Len(g) :
                   /\ LeadsOptions(g, i) /\ isEmptyTextNode(g[i + 1])
                   /\ IsPrefix(<<"group(">> \o printComment(g[i]) \o hardline,
                               result.exit.svelteOptionsDoc)

\* The sections of the tree that are present.
SectionsOf(ast) ==
    {n \in {ast.module, ast.instance, ast.css} : n.type # "None"}

\* The comments above offset pos in source order: the child that ends at
\* pos is a comment that is no range directive, or a whitespace-only text
\* with such a comment ending where it starts; ws is the whitespace between
\* the comment and what follows it.
RECURSIVE CommentsAbove(_, _, _)
CommentsAbove(children, pos, ws) ==
    LET at == {i \in 1..Len(children) : children[i].end = pos /\ children[i].start < pos}
    IN  IF at = {} THEN <<>>
        ELSE LET prev == children[CHOOSE i \in at : TRUE]
             IN  IF prev.type = "Comment" /\ ~IsRangeDirective(prev)
                 THEN Append(CommentsAbove(children, prev.start, <<>>),
                             [comment |-> prev,
                              emptyLineAfter |-> CountNewlines(ws) >= 2])
                 ELSE IF isEmptyTextNode(prev) /\ ws = <<>>
                 THEN CommentsAbove(children, prev.start, getUnencodedText(prev))
                 ELSE <<>>

\* C23: the comments attached to a script or style section are the maximal
\* run of comments (range directives excluded) that precede it by byte
\* adjacency with only whitespace-only text in between, in source order,
\* and emptyLineAfter of a comment is true exactly if the whitespace text
\* between it and the node after it has two or more newlines.
C23_LeadingCommentsAttached ==
    phase # "idle" =>
        LET assigned == assignCommentsToNodes(call.ast)
        IN  /\ call.ast.module.type # "None" =>
                   assigned.module.comments
                       = CommentsAbove(call.ast.html.children, call.ast.module.start, <<>>)
            /\ call.ast.instance.type # "None" =>
                   assigned.instance.comments
                       = CommentsAbove(call.ast.html.children, call.ast.instance.start, <<>>)
            /\ call.ast.css.type # "None" =>
                   assigned.css.comments
                       = CommentsAbove(call.ast.html.children, call.ast.css.start, <<>>)

\* The comments assignCommentsToNodes returned for section s.
ReturnedFor(assigned, s) ==
    LET part == IF s = call.ast.module THEN assigned.module
                ELSE IF s = call.ast.instance THEN assigned.instance
                ELSE assigned.css
    IN  {part.comments[i].comment : i \in 1..Len(part.comments)}

\* A markup child that may leave the list: a returned comment, or a
\* whitespace-only text between a returned comment and its section.
MayLeave(assigned, n) ==
    \E s \in SectionsOf(call.ast) :
        \E c \in ReturnedFor(assigned, s) :
            \/ n = c
            \/ isEmptyTextNode(n) /\ c.end <= n.start /\ n.end <= s.start

\* C24: removeAndGetLeadingComments takes out of the markup child list only
\* the comments it returns and the whitespace-only texts between those
\* comments and the section; every other markup child stays, in its
\* original relative order.
C24_OnlyLeadingCommentsRemoved ==
    phase # "idle" =>
        LET assigned == assignCommentsToNodes(call.ast)
            Stays(n) == ~MayLeave(assigned, n)
        IN  assigned.html.children = SelectSeq(call.ast.html.children, Stays)

\* C25: removeAndGetLeadingComments terminates on every markup child list.
\* Each pass through the loop moves to a sibling, and the sibling the walk
\* stands on fixes the next one; so the walk ends exactly if it makes no
\* more passes than there are siblings. More passes mean a sibling was
\* visited twice and the loop runs for ever.
C25_WalkTerminates == walk.pc = "walking" => walk.steps <= Len(walk.siblings)

\* The entries of childDocs that are children's documents: all but the
\* soft lines handleBlockChild pushed.
ChildEntries(childDocs) == {k \in 1..Len(childDocs) : childDocs[k] # softline}

\* The entry of the i-th child.
EntryOf(childDocs, i) ==
    CHOOSE k \in ChildEntries(childDocs) :
        Cardinality({j \in ChildEntries(childDocs) : j <= k}) = i

\* The soft lines pushed between child i and child i + 1.
SoftlinesBetween(childDocs, i) == EntryOf(childDocs, i + 1) - EntryOf(childDocs, i) - 1

NoBracket(tok) == tok \notin BracketTokens \cup {""}

\* What a document prints, without the grouping around it.
AtomsOfDoc(d) == SelectSeq(d, NoBracket)

StartsWithBreak(d) == AtomsOfDoc(d) # <<>> /\ Head(AtomsOfDoc(d)) \in LineTokens
EndsWithBreak(d) == AtomsOfDoc(d) # <<>> /\ Last(AtomsOfDoc(d)) \in LineTokens

====
